---- MODULE Spec2Model ----
(***************************************************************************)
(* A model of the Rohlik middleware core: the SessionManager (cookie jar   *)
(* and session state), the RohlikClient transport (rate limiter, cookie    *)
(* injection and persistence), the AuthService (login / logout), the       *)
(* CartService (API-then-form mutations), the LocationService (address     *)
(* submission, delivery-area cache) and the ProductService (getProduct and *)
(* its cache).  Every service constructs its own RohlikClient, and every   *)
(* RohlikClient constructs its own SessionManager and rate limiter.        *)
(*                                                                         *)
(* Time is counted in ticks.  A network exchange (request interceptor,     *)
(* network call, response interceptor) is one step of the operation that   *)
(* awaits it.                                                              *)
(***************************************************************************)
EXTENDS Integers, Sequences, FiniteSets, TLC

(* ---- bounds of the model ---- *)
\* the time horizon of the SessionManager and transport specifications, in ticks
MaxTime == 4
\* the time horizon of the whole process, in ticks
Horizon == 1
\* SESSION_TIMEOUT_MINUTES expressed in ticks (configurable, at least 1)
SessionTimeout == 2
\* the rate limiter's duration (60 s) expressed in ticks
WindowTicks == 2
\* RATE_LIMIT_REQUESTS_PER_MINUTE (configurable), the limiter's points
RequestsPerMinute == 2
\* ProductService.cacheTimeout (10 minutes) expressed in ticks
ProductCacheTicks == 2
\* the lifetime the specification gives a cached delivery area, in ticks (the
\* LocationService keeps no insertion time and has no such lifetime)
AreaCacheTicks == 2
\* the largest session timeout, and the latest start of a session, for which
\* needsRenewal is evaluated, in ticks
MaxTimeout == 5
MaxStart == 2
\* the longest text drawn over the characters of a price text
MaxText == 2
\* the largest number of cards on a list page
MaxCards == 4
\* the largest number of Order objects created in a run
MaxOrders == 2

Undefined == "undefined"

\* the services of the process, each owning one RohlikClient
Client == {"auth", "cart", "product", "location", "order"}

\* the host of ROHLIK_BASE_URL and an unrelated host
BaseHost == "rohlik"
Hosts == {BaseHost, "elsewhere"}

Min(a, b) == IF a < b THEN a ELSE b

VARIABLES
  now,          \* the clock (Date.now()), in ticks
  client,       \* per service: its RohlikClient's rateLimiter, sessionData, cookieJar
  authStatus,   \* AuthService.authStatus.isAuthenticated
  remoteToken,  \* whether the remote's pages currently carry an anti-forgery token
  authOp,       \* the login / logout call in progress, and its outcome
  cartOp,       \* the cart mutation in progress, and its outcome
  locOp,        \* the setDeliveryAddress call in progress, and its outcome
  cartCache,    \* CartService.cartCache
  productCache, \* ProductService.productCache (one product id)
  areaCache,    \* LocationService.deliveryAreasCache (one postal code)
  currentAddress, \* LocationService.currentAddress is set
  lastCall,     \* the last call made directly on a unit, with its pre-state and result
  lastAttempt,  \* the last request attempt seen at the transport
  productOp,    \* per caller: the getProduct call in progress, and its outcome
  areaCachedAt, \* when the cached delivery area was put into the cache
  served,       \* the last entity handed to a caller out of a cache, and its age
  orderHeap,    \* the Order objects created so far, by reference
  ordersCache,  \* OrderService.ordersCache (one order id): the reference it holds, or 0
  orderCall,    \* the last OrderService call, and the Order last handed to a caller
  inFlight,     \* per caller: the call whose request is awaiting its response
  remoteCart,   \* the number of mutations the remote has applied to the cart
  cartFetchedAt \* the remoteCart the cart in cartCache was fetched at

vars == <<now, client, authStatus, remoteToken, authOp, cartOp, locOp, cartCache,
          productCache, areaCache, currentAddress, lastCall, lastAttempt,
          productOp, areaCachedAt, served, orderHeap, ordersCache, orderCall,
          inFlight, remoteCart, cartFetchedAt>>

(***************************************************************************)
(* SessionManager                                                          *)
(***************************************************************************)

\* SessionManager.constructor / clearSession: the unauthenticated state
FreshSession(t) ==
  [sessionId |-> Undefined, userId |-> Undefined, email |-> Undefined,
   isAuthenticated |-> FALSE, lastActivity |-> t, expiresAt |-> t + SessionTimeout]

isSessionValid_Mutant(sd, t) == sd.isAuthenticated /\ t <= sd.expiresAt
\* the value isSessionValid() returns
isSessionValid(sd, t) == sd.isAuthenticated /\ t < sd.expiresAt

updateActivity_Mutant(sd, t) == [sd EXCEPT !.lastActivity = t]
\* SessionManager.updateActivity
updateActivity(sd, t) ==
  [sd EXCEPT !.lastActivity = t, !.expiresAt = t + SessionTimeout]

\* SessionManager.setAuthenticated
setAuthenticated(sid, uid, mail, t) ==
  [sessionId |-> sid, userId |-> uid, email |-> mail,
   isAuthenticated |-> TRUE, lastActivity |-> t, expiresAt |-> t + SessionTimeout]

clearSession_Mutant(c, t) == [c EXCEPT !.sessionData = FreshSession(t)]
\* SessionManager.clearSession applied to one client's state: fresh session data
\* and a new, empty jar; the rate limiter belongs to the client and is kept
clearSession(c, t) == [c EXCEPT !.sessionData = FreshSession(t), !.cookieJar = {}]

\* SessionManager.isSessionValid applied to one client's state: an authenticated
\* session that fails the check is cleared in the same call
SessionAfterValidityCheck(c, t) ==
  IF ~isSessionValid(c.sessionData, t) /\ c.sessionData.isAuthenticated
  THEN clearSession(c, t)
  ELSE c

(* ---- the cookie jar (tough-cookie), hosts without sub-domains ---- *)

\* a Set-Cookie header: malformed, or a cookie with an optional Domain attribute
Malformed == [name |-> "?", value |-> "?", domain |-> "?"]
IsMalformed(h) == h.name = "?"

\* CookieJar.setCookie accepts the header for a response from host
Accepts(h, host) == ~IsMalformed(h) /\ h.domain \in {Undefined, host}

\* the stored cookie: keyed by (domain, name), a later one replaces an earlier
StoreCookie(jar, h, host) ==
  LET d == IF h.domain = Undefined THEN host ELSE h.domain
      ck == [name |-> h.name, value |-> h.value, domain |-> d]
  IN {x \in jar : ~(x.name = ck.name /\ x.domain = ck.domain)} \cup {ck}

\* SessionManager.setCookiesFromResponse: the loop runs inside one try block, so
\* the first header CookieJar.setCookie rejects ends it; the error is logged
RECURSIVE setCookiesFromResponse(_, _, _)
setCookiesFromResponse(jar, host, cookies) ==
  IF cookies = <<>> THEN jar
  ELSE IF ~Accepts(Head(cookies), host) THEN jar
  ELSE setCookiesFromResponse(StoreCookie(jar, Head(cookies), host), host, Tail(cookies))

getCookieString_Mutant(jar, host) == jar
\* SessionManager.getCookieString: the cookies of the jar that match the url's host
getCookieString(jar, host) == {x \in jar : x.domain = host}

(***************************************************************************)
(* RohlikClient: the rate limiter and the interceptors                     *)
(***************************************************************************)

\* new RohlikClient(): a new SessionManager, an empty limiter; sent counts the
\* requests put on the network in the limiter's current window
NewClient(t) ==
  [rateLimiter |-> [value |-> 0, expiresAt |-> 0],
   sessionData |-> FreshSession(t),
   cookieJar |-> {},
   sent |-> 0]

\* the limiter's record for the key is live at time t
WindowOpen(rl, t) == rl.value > 0 /\ rl.expiresAt > t

\* RateLimiterMemory.consume's bookkeeping: a live record is incremented (also by
\* a rejected attempt; the value is capped one above the points), an absent or
\* expired one is replaced by a record of one point expiring a duration later
Consume(rl, t) ==
  IF WindowOpen(rl, t)
  THEN [rl EXCEPT !.value = Min(@ + 1, RequestsPerMinute + 1)]
  ELSE [value |-> 1, expiresAt |-> t + WindowTicks]

Allowed_Mutant(rl) == rl.value <= RequestsPerMinute + 1
\* consume resolves when the consumed points do not exceed the limiter's points
Allowed(rl) == rl.value <= RequestsPerMinute

\* what the network answers: a response axios resolves (its status passes
\* validateStatus), a response it rejects (HTTP status error) or no response
Transport == {"ok", "http_error", "network_error"}

\* the session cookie a login hands out, as a header and as the jar stores it
AuthCookie == [name |-> "session", value |-> "auth", domain |-> Undefined]
StoredAuthCookie == [name |-> "session", value |-> "auth", domain |-> BaseHost]

\* the responses of the remote to a request other than the login submission
Responses == {[kind |-> k, setCookie |-> <<>>] : k \in Transport}

\* the value sanitizeHeaders writes in the place of a header's value
Redacted == "[REDACTED]"

\* RohlikClient.sanitizeHeaders: a copy of the headers (header name -> the
\* values in it) in which the value of 'Cookie' and of 'Authorization', when
\* set, is replaced
sanitizeHeaders(headers) ==
  [n \in DOMAIN headers |->
     IF n \in {"Cookie", "Authorization"} /\ headers[n] # {} THEN {Redacted}
     ELSE headers[n]]

\* the headers of a request carrying the cookies ck, and those of a response
\* carrying the Set-Cookie list sc; a header is known by the cookie values in it
RequestHeaders(ck) == [n \in {"Cookie"} |-> {x.value : x \in ck}]
ResponseHeaders(sc) == [n \in {"set-cookie"} |-> {sc[i].value : i \in 1..Len(sc)}]

\* the diagnostic entries of one exchange, each with the header values attached
\* to it: the 'HTTP request' entry; for a resolved response the SessionManager's
\* 'Failed to set cookies from response' entry (it carries the whole list, and
\* is written when a header of the list is rejected) and the 'HTTP response'
\* entry; the 'HTTP error' entry of a rejected response carries no headers
Diagnostics(ck, resp, host) ==
  <<sanitizeHeaders(RequestHeaders(ck))>>
    \o (IF resp.kind = "ok"
           /\ \E i \in 1..Len(resp.setCookie) : ~Accepts(resp.setCookie[i], host)
        THEN <<[n \in {"cookies"} |->
                 {resp.setCookie[i].value : i \in 1..Len(resp.setCookie)}]>>
        ELSE <<>>)
    \o (IF resp.kind = "ok" THEN <<sanitizeHeaders(ResponseHeaders(resp.setCookie))>>
        ELSE <<>>)

NoResponse == [kind |-> "none", setCookie |-> <<>>]

\* One request through the axios instance of service c at time t, answered by
\* resp.  Request interceptor: consume a point or throw 'Rate limit exceeded';
\* compute the Cookie header from the client's own jar; updateActivity.  Then
\* the network call.  Response interceptor: a resolved response's Set-Cookie
\* headers are stored in the client's own jar; a rejected one is logged.  The
\* attempt records who asked and when, what the limiter decided, the Cookie
\* header sent, the Set-Cookie list the remote answered with, and the header
\* values written to the diagnostic entries.
Request(cl, c, t, resp) ==
  LET rl == Consume(cl[c].rateLimiter, t)
      fresh == ~WindowOpen(cl[c].rateLimiter, t)
      exhausted == WindowOpen(cl[c].rateLimiter, t)
                     /\ cl[c].rateLimiter.value >= RequestsPerMinute
      held == authStatus /\ StoredAuthCookie \in cl["auth"].cookieJar
  IN IF ~Allowed(rl)
     THEN [cl |-> [cl EXCEPT ![c].rateLimiter = rl],
           result |-> "rate_limited",
           attempt |-> [by |-> c, exhausted |-> exhausted, result |-> "rate_limited",
                        network |-> FALSE, cookie |-> {}, held |-> held,
                        at |-> t, offered |-> <<>>, logged |-> <<>>]]
     ELSE [cl |-> [cl EXCEPT
                     ![c].rateLimiter = rl,
                     ![c].sessionData = updateActivity(@, t),
                     ![c].sent = IF fresh THEN 1 ELSE Min(@ + 1, RequestsPerMinute + 1),
                     ![c].cookieJar =
                        IF resp.kind = "ok"
                        THEN setCookiesFromResponse(@, BaseHost, resp.setCookie)
                        ELSE @],
           result |-> resp.kind,
           attempt |-> [by |-> c, exhausted |-> exhausted, result |-> resp.kind,
                        network |-> TRUE,
                        cookie |-> getCookieString(cl[c].cookieJar, BaseHost),
                        held |-> held, at |-> t,
                        offered |-> IF resp.kind = "network_error" THEN <<>>
                                    ELSE resp.setCookie,
                        logged |-> Diagnostics(getCookieString(cl[c].cookieJar, BaseHost),
                                               resp, BaseHost)]]

NoAttempt ==
  [by |-> "none", exhausted |-> FALSE, result |-> "none", network |-> FALSE,
   cookie |-> {}, held |-> FALSE, at |-> 0, offered |-> <<>>, logged |-> <<>>]

(***************************************************************************)
(* AuthService                                                             *)
(***************************************************************************)

IdleAuthOp ==
  [pc |-> "idle", outcome |-> "none", fetched |-> FALSE, tokenFound |-> FALSE,
   submits |-> 0]

\* the remote's answers to the login submission that axios resolves (maxRedirects
\* 0, validateStatus < 400): a redirect away from the login page, a redirect back
\* to it, or the login page again with status 200; with or without a session cookie
LoginReplies == {"redirect_home", "redirect_login", "page"}
LoginResponses ==
  {[kind |-> "ok", setCookie |-> ck] : ck \in {<<>>, <<AuthCookie>>}}
    \cup {[kind |-> k, setCookie |-> <<>>] : k \in {"http_error", "network_error"}}

\* a Set-Cookie header whose text includes 'session', 'auth' or 'remember'
IsSessionCookie(h) == h.name = "session"

\* AuthService.checkLoginSuccess
checkLoginSuccess(reply, setCookie) ==
  LET isRedirect == reply \in {"redirect_home", "redirect_login"}
      hasSessionCookies == \E i \in 1..Len(setCookie) : IsSessionCookie(setCookie[i])
      redirectedFromLogin == reply = "redirect_home"
  IN isRedirect /\ (hasSessionCookies \/ redirectedFromLogin)

LoginTokenFound_Mutant(token) == TRUE
\* AuthService.login: the login page's input[name="_token"] has a value
LoginTokenFound(token) == token

\* AuthService.login, up to the first await's answer: GET the login page and look
\* for the anti-forgery token.  Every throw is caught, logged, resets authStatus
\* and is thrown again.
LoginFetchPage(resp) ==
  /\ authOp.pc \in {"idle", "done"}
  /\ LET r == Request(client, "auth", now, resp)
     IN /\ client' = r.cl
        /\ lastAttempt' = r.attempt
        /\ IF r.result # "ok"
           THEN /\ authOp' = [IdleAuthOp EXCEPT !.pc = "done", !.outcome = "throw_transport"]
                /\ authStatus' = FALSE
           ELSE IF ~LoginTokenFound(remoteToken)
           THEN /\ authOp' = [IdleAuthOp EXCEPT !.pc = "done", !.outcome = "throw_csrf",
                                                !.fetched = TRUE]
                /\ authStatus' = FALSE
           ELSE /\ authOp' = [IdleAuthOp EXCEPT !.pc = "submit", !.fetched = TRUE,
                                                !.tokenFound = remoteToken]
                /\ UNCHANGED authStatus
  /\ UNCHANGED <<now, remoteToken, cartOp, locOp, cartCache, productCache, areaCache,
                 currentAddress, lastCall,
                 productOp, areaCachedAt, served,
                 orderHeap, ordersCache, orderCall,
                 inFlight, remoteCart, cartFetchedAt>>

\* AuthService.login: POST the login form and judge the answer
LoginSubmit(resp, reply) ==
  /\ authOp.pc = "submit"
  /\ LET r == Request(client, "auth", now, resp)
         sent == IF r.attempt.network THEN 1 ELSE 0
     IN /\ client' = r.cl
        /\ lastAttempt' = r.attempt
        /\ IF r.result = "ok" /\ checkLoginSuccess(reply, resp.setCookie)
           THEN /\ authOp' = [authOp EXCEPT !.pc = "profile", !.submits = @ + sent]
                /\ UNCHANGED authStatus
           ELSE /\ authOp' = [authOp EXCEPT !.pc = "done", !.submits = @ + sent,
                                !.outcome = IF r.result = "ok" THEN "throw_login_failed"
                                            ELSE "throw_transport"]
                /\ authStatus' = FALSE
  /\ UNCHANGED <<now, remoteToken, cartOp, locOp, cartCache, productCache, areaCache,
                 currentAddress, lastCall,
                 productOp, areaCachedAt, served,
                 orderHeap, ordersCache, orderCall,
                 inFlight, remoteCart, cartFetchedAt>>

\* AuthService.login after a successful submission: extractUserProfile (its errors
\* are swallowed), then authStatus is set.  The SessionManager's setAuthenticated
\* is not called: login leaves the client's sessionData as it is.
LoginProfile(resp) ==
  /\ authOp.pc = "profile"
  /\ LET r == Request(client, "auth", now, resp)
     IN /\ client' = r.cl
        /\ lastAttempt' = r.attempt
  /\ authStatus' = TRUE
  /\ authOp' = [authOp EXCEPT !.pc = "done", !.outcome = "authenticated"]
  /\ UNCHANGED <<now, remoteToken, cartOp, locOp, cartCache, productCache, areaCache,
                 currentAddress, lastCall,
                 productOp, areaCachedAt, served,
                 orderHeap, ordersCache, orderCall,
                 inFlight, remoteCart, cartFetchedAt>>

\* a caller's call: the operation, its position, the client asked, the
\* remoteCart the cart page is served at, the remoteCart the call's mutation
\* produced, whether what the call awaited has resolved, and whether the
\* client's session was cleared since the request was sent
NoExchange ==
  [op |-> "none", pc |-> "idle", by |-> "none", fetched |-> 0, applied |-> 0,
   ok |-> FALSE, cleared |-> FALSE]

\* clearSession of client c's SessionManager, as the calls see it whose request
\* on that client awaits its response
SessionCleared(flight, c) ==
  [p \in DOMAIN flight |->
     IF flight[p].pc = "sent" /\ flight[p].by = c
     THEN [flight[p] EXCEPT !.cleared = TRUE] ELSE flight[p]]

Logout_Mutant(resp) ==
  /\ LET r == IF authStatus THEN Request(client, "auth", now, resp)
              ELSE [cl |-> client, result |-> "none", attempt |-> lastAttempt]
     IN /\ client' = IF r.result \in {"none", "ok"}
                     THEN [r.cl EXCEPT !["auth"] = clearSession(@, now)]
                     ELSE r.cl
        /\ lastAttempt' = r.attempt
        /\ authStatus' = (authStatus /\ r.result \notin {"none", "ok"})
  /\ inFlight' = SessionCleared(inFlight, "auth")
  /\ UNCHANGED <<now, remoteToken, authOp, cartOp, locOp, cartCache, productCache,
                 areaCache, currentAddress, lastCall,
                 productOp, areaCachedAt, served,
                 orderHeap, ordersCache, orderCall,
                 remoteCart, cartFetchedAt>>

\* AuthService.logout: the remote logout request when authenticated, whatever its
\* result; then authStatus is reset and the auth client's session is cleared
Logout(resp) ==
  /\ LET r == IF authStatus THEN Request(client, "auth", now, resp)
              ELSE [cl |-> client, result |-> "none", attempt |-> lastAttempt]
     IN /\ client' = [r.cl EXCEPT !["auth"] = clearSession(@, now)]
        /\ lastAttempt' = r.attempt
  /\ authStatus' = FALSE
  /\ inFlight' = SessionCleared(inFlight, "auth")
  /\ UNCHANGED <<now, remoteToken, authOp, cartOp, locOp, cartCache, productCache,
                 areaCache, currentAddress, lastCall,
                 productOp, areaCachedAt, served,
                 orderHeap, ordersCache, orderCall,
                 remoteCart, cartFetchedAt>>

\* AuthService.validateSession: false at once when authStatus is not
\* authenticated; otherwise GET the profile page, and the session is valid when
\* the page has no login form and has user content or came with status 200.
\* An invalid session resets authStatus; so does the catch of every throw (the
\* rate limiter's, a network failure, a rejected status).  The SessionManager
\* is not touched.  lastCall keeps whether a login form was served and what
\* the call returned.
ValidateSession(resp, hasLoginForm, hasUserContent, status200) ==
  /\ IF ~authStatus
     THEN /\ lastCall' = [op |-> "validateSession", args |-> <<FALSE>>, result |-> FALSE,
                          pre |-> client["auth"], at |-> now,
                          touched |-> lastCall.touched]
          /\ UNCHANGED <<client, lastAttempt, authStatus>>
     ELSE LET r == Request(client, "auth", now, resp)
              isValid == /\ r.result = "ok"
                         /\ ~hasLoginForm /\ (hasUserContent \/ status200)
          IN /\ client' = r.cl
             /\ lastAttempt' = r.attempt
             /\ authStatus' = isValid
             /\ lastCall' = [op |-> "validateSession",
                             args |-> <<r.result = "ok" /\ hasLoginForm>>,
                             result |-> isValid, pre |-> client["auth"], at |-> now,
                             touched |-> lastCall.touched]
  /\ UNCHANGED <<now, remoteToken, authOp, cartOp, locOp, cartCache, productCache,
                 areaCache, currentAddress,
                 productOp, areaCachedAt, served,
                 orderHeap, ordersCache, orderCall,
                 inFlight, remoteCart, cartFetchedAt>>

(***************************************************************************)
(* ProductService.getProduct, as CartService.addToCart uses it             *)
(***************************************************************************)

NoProduct == [present |-> FALSE, cacheTime |-> 0]

\* ProductService.getCachedProduct: an entry older than cacheTimeout is deleted
CachedProductValid(pcache, t) ==
  pcache.present /\ ~(t > pcache.cacheTime + ProductCacheTicks)

(***************************************************************************)
(* CartService: the mutations                                              *)
(***************************************************************************)

IdleCartOp ==
  [pc |-> "idle", kind |-> "none", apiReply |-> "none", formTried |-> FALSE,
   refFetches |-> 0, formSubmits |-> 0, mutating |-> 0, outcome |-> "none"]

\* addToCart, updateCartItem (a quantity of 0 is handed to removeFromCart) and
\* removeFromCart
CartKinds == {"add", "update", "update0", "remove"}
EffectiveKind(k) == IF k = "update0" THEN "remove" ELSE k

\* what a resolved answer of the structured endpoint says
ApiReplies == {"success", "no_success"}

ViaApi_Mutant(result, reply) ==
  IF result = "ok" /\ reply = "success" THEN "true" ELSE "throw"
\* addToCartViaApi / updateCartViaApi / removeFromCartViaApi: status 200 and
\* data.success === true give true; every error of the call is caught inside
\* the helper and gives false, so the helper never throws
ViaApi(result, reply) ==
  IF result = "ok" /\ reply = "success" THEN "true" ELSE "false"

FallbackTaken_Mutant(viaApi) == TRUE
\* the catch (apiError) block of the mutation runs when the ViaApi helper throws
FallbackTaken(viaApi) == viaApi = "throw"

Sent(attempt) == IF attempt.network THEN 1 ELSE 0

\* addToCartViaForm / updateCartViaForm (removeFromCartViaForm calls the latter):
\* GET the reference page, read the form's inputs (update: throw when the item's
\* form is missing), POST the form; status < 400 gives true, every error false.
\* No anti-forgery token is looked for.
ViaForm(cl, kind, t, rFetch, formFound, rSubmit) ==
  LET f == Request(cl, "cart", t, rFetch)
      s == Request(f.cl, "cart", t, rSubmit)
  IN IF f.result # "ok" \/ (kind # "add" /\ ~formFound)
     THEN [cl |-> f.cl, ok |-> FALSE, refFetches |-> Sent(f.attempt),
           formSubmits |-> 0, attempt |-> f.attempt]
     ELSE [cl |-> s.cl, ok |-> s.result = "ok", refFetches |-> 1,
           formSubmits |-> Sent(s.attempt), attempt |-> s.attempt]

\* the dual-path part of a mutation: success = await ViaApi(...), and in the
\* catch block success = await ViaForm(...)
Mutate(cl, kind, t, rApi, reply, rFetch, formFound, rSubmit) ==
  LET a == Request(cl, "cart", t, rApi)
      v == ViaApi(a.result, reply)
      f == ViaForm(a.cl, kind, t, rFetch, formFound, rSubmit)
      said == IF a.result = "ok" THEN reply ELSE "threw"
  IN IF FallbackTaken(v)
     THEN [cl |-> f.cl, success |-> f.ok, apiReply |-> said, formTried |-> TRUE,
           refFetches |-> f.refFetches, formSubmits |-> f.formSubmits,
           mutating |-> Sent(a.attempt) + f.formSubmits, attempt |-> f.attempt]
     ELSE [cl |-> a.cl, success |-> v = "true", apiReply |-> said, formTried |-> FALSE,
           refFetches |-> 0, formSubmits |-> 0,
           mutating |-> Sent(a.attempt), attempt |-> a.attempt]

\* a mutation called while authService.isAuthenticated() is false throws at once
CartRejected(k) ==
  /\ cartOp.pc \in {"idle", "done"}
  /\ ~authStatus
  /\ cartOp' = [IdleCartOp EXCEPT !.pc = "done", !.kind = EffectiveKind(k),
                                  !.outcome = "throw_auth"]
  /\ UNCHANGED <<now, client, authStatus, remoteToken, authOp, locOp, cartCache,
                 productCache, areaCache, currentAddress, lastCall, lastAttempt,
                 productOp, areaCachedAt, served,
                 orderHeap, ordersCache, orderCall,
                 inFlight, remoteCart, cartFetchedAt>>

\* addToCart with no valid cache entry for the product: productService.getProduct
\* fetches and parses the product page with the product service's client; a
\* parsed product is cached; any failure gives null and addToCart throws
AddToCartLookup(resp, parsed) ==
  /\ cartOp.pc \in {"idle", "done"}
  /\ authStatus
  /\ ~CachedProductValid(productCache, now)
  /\ LET r == Request(client, "product", now, resp)
     IN /\ client' = r.cl
        /\ lastAttempt' = r.attempt
        /\ IF r.result = "ok" /\ parsed
           THEN /\ productCache' = [present |-> TRUE, cacheTime |-> now]
                /\ cartOp' = [IdleCartOp EXCEPT !.pc = "api", !.kind = "add"]
           ELSE /\ productCache' = NoProduct
                /\ cartOp' = [IdleCartOp EXCEPT !.pc = "done", !.kind = "add",
                                                !.outcome = "throw_not_found"]
  /\ UNCHANGED <<now, authStatus, remoteToken, authOp, locOp, cartCache, areaCache,
                 currentAddress, lastCall,
                 productOp, areaCachedAt, served,
                 orderHeap, ordersCache, orderCall,
                 inFlight, remoteCart, cartFetchedAt>>

\* the mutation itself: the structured call, the fallback when it throws, then
\* either the cache is dropped and the cart is fetched again, or the mutation
\* throws 'Failed to ...'
CartMutation(k, rApi, reply, rFetch, formFound, rSubmit) ==
  /\ \/ /\ cartOp.pc \in {"idle", "done"}
        /\ authStatus
        /\ k = "add" => CachedProductValid(productCache, now)
     \/ /\ cartOp.pc = "api"
        /\ k = cartOp.kind
  /\ LET m == Mutate(client, EffectiveKind(k), now, rApi, reply, rFetch, formFound, rSubmit)
     IN /\ client' = m.cl
        /\ lastAttempt' = m.attempt
        /\ cartOp' = [pc |-> IF m.success THEN "refresh" ELSE "done",
                      kind |-> EffectiveKind(k),
                      apiReply |-> m.apiReply,
                      formTried |-> m.formTried,
                      refFetches |-> m.refFetches,
                      formSubmits |-> m.formSubmits,
                      mutating |-> m.mutating,
                      outcome |-> IF m.success THEN "none" ELSE "throw_failed"]
        /\ cartCache' = IF m.success THEN "null" ELSE cartCache
  /\ UNCHANGED <<now, authStatus, remoteToken, authOp, locOp, productCache, areaCache,
                 currentAddress, lastCall,
                 productOp, areaCachedAt, served,
                 orderHeap, ordersCache, orderCall,
                 inFlight, remoteCart, cartFetchedAt>>

\* getCart, called by a successful mutation: throws when not authenticated or
\* when the transport fails; otherwise caches and returns the parsed cart
CartRefresh(resp) ==
  /\ cartOp.pc = "refresh"
  /\ IF ~authStatus
     THEN /\ cartOp' = [cartOp EXCEPT !.pc = "done", !.outcome = "throw_auth"]
          /\ UNCHANGED <<client, lastAttempt, cartCache>>
     ELSE LET r == Request(client, "cart", now, resp)
          IN /\ client' = r.cl
             /\ lastAttempt' = r.attempt
             /\ IF r.result = "ok"
                THEN /\ cartCache' = "cart"
                     /\ cartOp' = [cartOp EXCEPT !.pc = "done", !.outcome = "returned_cart"]
                ELSE /\ cartCache' = cartCache
                     /\ cartOp' = [cartOp EXCEPT !.pc = "done", !.outcome = "throw_transport"]
  /\ UNCHANGED <<now, authStatus, remoteToken, authOp, locOp, productCache, areaCache,
                 currentAddress, lastCall,
                 productOp, areaCachedAt, served,
                 orderHeap, ordersCache, orderCall,
                 inFlight, remoteCart, cartFetchedAt>>

(***************************************************************************)
(* LocationService.setDeliveryAddress                                      *)
(***************************************************************************)

IdleLocOp ==
  [pc |-> "idle", outcome |-> "none", areaThrew |-> FALSE, fetched |-> FALSE,
   tokenFound |-> FALSE, submits |-> 0]

\* what a resolved answer of /api/delivery-areas says about the postal code
AreaReplies == {"available", "unavailable", "no_data"}

AddressTokenFound_Mutant(token) == TRUE
\* submitAddressToRohlik: the location page's input[name="_token"] has a value
AddressTokenFound(token) == token

\* setDeliveryAddress returns a failure value at once: the caller is not
\* authenticated (the throw is caught), or the address fails validateAddressFormat
AddressRejected(formatValid) ==
  /\ locOp.pc \in {"idle", "done"}
  /\ ~authStatus \/ ~formatValid
  /\ locOp' = [IdleLocOp EXCEPT !.pc = "done", !.outcome = "soft_failure"]
  /\ UNCHANGED <<now, client, authStatus, remoteToken, authOp, cartOp, cartCache,
                 productCache, areaCache, currentAddress, lastCall, lastAttempt,
                 productOp, areaCachedAt, served,
                 orderHeap, ordersCache, orderCall,
                 inFlight, remoteCart, cartFetchedAt>>

\* validateDeliveryArea with a cached delivery area: getDeliveryArea returns
\* the entry of deliveryAreasCache, whatever its age
AddressAreaCached ==
  /\ locOp.pc \in {"idle", "done"}
  /\ authStatus
  /\ areaCache # "none"
  /\ locOp' = IF areaCache = "available"
              THEN [IdleLocOp EXCEPT !.pc = "page"]
              ELSE [IdleLocOp EXCEPT !.pc = "done", !.outcome = "soft_failure"]
  /\ served' = [kind |-> "area", age |-> now - areaCachedAt]
  /\ UNCHANGED <<now, client, authStatus, remoteToken, authOp, cartOp, cartCache,
                 productCache, areaCache, currentAddress, lastCall, lastAttempt,
                 productOp, areaCachedAt,
                 orderHeap, ordersCache, orderCall,
                 inFlight, remoteCart, cartFetchedAt>>

\* validateDeliveryArea / getDeliveryArea with no cached area: the answer is
\* cached when it has data; a failed call falls back to an available area for
\* a postal code starting with '1' and to null otherwise
AddressAreaLookup(resp, reply, prague) ==
  /\ locOp.pc \in {"idle", "done"}
  /\ authStatus
  /\ areaCache = "none"
  /\ LET r == Request(client, "location", now, resp)
         area == IF r.result = "ok"
                 THEN (IF reply = "no_data" THEN "none" ELSE reply)
                 ELSE (IF prague THEN "available" ELSE "none")
     IN /\ client' = r.cl
        /\ lastAttempt' = r.attempt
        /\ areaCache' = area
        /\ areaCachedAt' = IF area # "none" THEN now ELSE areaCachedAt
        /\ locOp' = IF area = "available"
                    THEN [IdleLocOp EXCEPT !.pc = "page", !.areaThrew = r.result # "ok"]
                    ELSE [IdleLocOp EXCEPT !.pc = "done", !.outcome = "soft_failure",
                                           !.areaThrew = r.result # "ok"]
  /\ UNCHANGED <<now, authStatus, remoteToken, authOp, cartOp, cartCache, productCache,
                 currentAddress, lastCall,
                 productOp, served,
                 orderHeap, ordersCache, orderCall,
                 inFlight, remoteCart, cartFetchedAt>>

\* submitAddressToRohlik: GET the location page and look for the token; the
\* throw for a missing token is caught in the same method and becomes
\* {isValid: false, errors: ['Failed to submit address']}
AddressFetchPage(resp) ==
  /\ locOp.pc = "page"
  /\ LET r == Request(client, "location", now, resp)
     IN /\ client' = r.cl
        /\ lastAttempt' = r.attempt
        /\ locOp' = IF r.result # "ok"
                    THEN [locOp EXCEPT !.pc = "done", !.outcome = "soft_failure"]
                    ELSE IF ~AddressTokenFound(remoteToken)
                    THEN [locOp EXCEPT !.pc = "done", !.outcome = "soft_failure",
                                       !.fetched = TRUE]
                    ELSE [locOp EXCEPT !.pc = "submit", !.fetched = TRUE,
                                       !.tokenFound = remoteToken]
  /\ UNCHANGED <<now, authStatus, remoteToken, authOp, cartOp, cartCache, productCache,
                 areaCache, currentAddress, lastCall,
                 productOp, areaCachedAt, served,
                 orderHeap, ordersCache, orderCall,
                 inFlight, remoteCart, cartFetchedAt>>

\* submitAddressToRohlik: POST the address form; a resolved answer sets the
\* current address, a failed call gives the failure value
AddressSubmit(resp) ==
  /\ locOp.pc = "submit"
  /\ LET r == Request(client, "location", now, resp)
     IN /\ client' = r.cl
        /\ lastAttempt' = r.attempt
        /\ locOp' = [locOp EXCEPT !.pc = "done", !.submits = @ + Sent(r.attempt),
                       !.outcome = IF r.result = "ok" THEN "valid" ELSE "soft_failure"]
        /\ currentAddress' = (currentAddress \/ r.result = "ok")
  /\ UNCHANGED <<now, authStatus, remoteToken, authOp, cartOp, cartCache, productCache,
                 areaCache, lastCall,
                 productOp, areaCachedAt, served,
                 orderHeap, ordersCache, orderCall,
                 inFlight, remoteCart, cartFetchedAt>>

(***************************************************************************)
(* ProductService.getProduct, called concurrently                          *)
(***************************************************************************)

\* the callers of getProduct whose calls may overlap (getProducts starts a
\* batch of them with Promise.all); all ask for the same product id
Callers == {"first", "second"}

NoneServed == [kind |-> "none", age |-> 0]

IdleProductOp ==
  [pc |-> "idle", missed |-> FALSE, attempts |-> 0, failed |-> "none",
   result |-> "none"]

cacheProduct_Mutant(pcache, t) == pcache
\* ProductService.cacheProduct: the entry of the id is set, stamped with the time
cacheProduct(pcache, t) == [present |-> TRUE, cacheTime |-> t]

\* getProduct up to its await: a valid cache entry is returned at once; an
\* expired one is deleted, and the caller goes on to fetch the product page
GetProductStart(p) ==
  /\ productOp[p].pc \in {"idle", "done"}
  /\ IF CachedProductValid(productCache, now)
     THEN /\ productOp' = [productOp EXCEPT
                             ![p] = [IdleProductOp EXCEPT !.pc = "done",
                                                          !.result = "cached"]]
          /\ served' = [kind |-> "product", age |-> now - productCache.cacheTime]
          /\ UNCHANGED productCache
     ELSE /\ productOp' = [productOp EXCEPT
                             ![p] = [IdleProductOp EXCEPT !.pc = "fetching",
                                                          !.missed = TRUE]]
          /\ productCache' = NoProduct
          /\ UNCHANGED served
  /\ UNCHANGED <<now, client, authStatus, remoteToken, authOp, cartOp, locOp, cartCache,
                 areaCache, currentAddress, lastCall, lastAttempt, areaCachedAt,
                 orderHeap, ordersCache, orderCall,
                 inFlight, remoteCart, cartFetchedAt>>

\* getProduct from its await on: the page is fetched with the product service's
\* client and parsed; a parsed product is cached and returned; an empty page or
\* a parse failure gives null; every error, the transport's included, is caught
\* and gives null
GetProductFinish(p, resp, parsed) ==
  /\ productOp[p].pc = "fetching"
  /\ LET r == Request(client, "product", now, resp)
         entity == r.result = "ok" /\ parsed
     IN /\ client' = r.cl
        /\ lastAttempt' = r.attempt
        /\ productCache' = IF entity THEN cacheProduct(productCache, now)
                           ELSE productCache
        /\ productOp' = [productOp EXCEPT
                           ![p] = [@ EXCEPT !.pc = "done",
                                            !.attempts = @ + 1,
                                            !.failed = IF r.result = "ok" THEN "none"
                                                       ELSE r.result,
                                            !.result = IF entity THEN "entity"
                                                       ELSE "null"]]
  /\ UNCHANGED <<now, authStatus, remoteToken, authOp, cartOp, locOp, cartCache,
                 areaCache, currentAddress, lastCall, areaCachedAt, served,
                 orderHeap, ordersCache, orderCall,
                 inFlight, remoteCart, cartFetchedAt>>

(***************************************************************************)
(* the environment                                                         *)
(***************************************************************************)

\* time passes
Tick ==
  /\ now < Horizon
  /\ now' = now + 1
  /\ UNCHANGED <<client, authStatus, remoteToken, authOp, cartOp, locOp, cartCache,
                 productCache, areaCache, currentAddress, lastCall, lastAttempt,
                 productOp, areaCachedAt, served,
                 orderHeap, ordersCache, orderCall,
                 inFlight, remoteCart, cartFetchedAt>>

\* the remote changes its markup: its pages gain or lose the anti-forgery token
RemoteMarkupChange ==
  /\ remoteToken' = ~remoteToken
  /\ UNCHANGED <<now, client, authStatus, authOp, cartOp, locOp, cartCache,
                 productCache, areaCache, currentAddress, lastCall, lastAttempt,
                 productOp, areaCachedAt, served,
                 orderHeap, ordersCache, orderCall,
                 inFlight, remoteCart, cartFetchedAt>>

(***************************************************************************)
(* the SessionManager and the RohlikClient called on their own             *)
(***************************************************************************)

\* the SessionManager under call is the auth client's; lastCall keeps the call,
\* its arguments (when a claim reads them), its result, the state it found, its
\* time, and the time of the last call that wrote sessionData
Called(op, result, touches) ==
  lastCall' = [op |-> op, args |-> <<>>, result |-> result, pre |-> client["auth"],
               at |-> now, touched |-> IF touches THEN now ELSE lastCall.touched]

SessionIds == {"sid"}
UserIds == {Undefined, "uid"}
Emails == {Undefined, "mail"}

CallSetAuthenticated(sid, uid, mail) ==
  /\ client' = [client EXCEPT !["auth"].sessionData = setAuthenticated(sid, uid, mail, now)]
  /\ Called("setAuthenticated", FALSE, TRUE)
  /\ UNCHANGED <<now, authStatus, remoteToken, authOp, cartOp, locOp, cartCache,
                 productCache, areaCache, currentAddress, lastAttempt,
                 productOp, areaCachedAt, served,
                 orderHeap, ordersCache, orderCall,
                 inFlight, remoteCart, cartFetchedAt>>

CallUpdateActivity ==
  /\ client' = [client EXCEPT !["auth"].sessionData = updateActivity(@, now)]
  /\ Called("updateActivity", FALSE, TRUE)
  /\ UNCHANGED <<now, authStatus, remoteToken, authOp, cartOp, locOp, cartCache,
                 productCache, areaCache, currentAddress, lastAttempt,
                 productOp, areaCachedAt, served,
                 orderHeap, ordersCache, orderCall,
                 inFlight, remoteCart, cartFetchedAt>>

CallIsSessionValid ==
  /\ client' = [client EXCEPT !["auth"] = SessionAfterValidityCheck(@, now)]
  /\ Called("isSessionValid", isSessionValid(client["auth"].sessionData, now), TRUE)
  /\ UNCHANGED <<now, authStatus, remoteToken, authOp, cartOp, locOp, cartCache,
                 productCache, areaCache, currentAddress, lastAttempt,
                 productOp, areaCachedAt, served,
                 orderHeap, ordersCache, orderCall,
                 inFlight, remoteCart, cartFetchedAt>>

CallClearSession ==
  /\ client' = [client EXCEPT !["auth"] = clearSession(@, now)]
  /\ Called("clearSession", FALSE, TRUE)
  /\ UNCHANGED <<now, authStatus, remoteToken, authOp, cartOp, locOp, cartCache,
                 productCache, areaCache, currentAddress, lastAttempt,
                 productOp, areaCachedAt, served,
                 orderHeap, ordersCache, orderCall,
                 inFlight, remoteCart, cartFetchedAt>>

\* the Set-Cookie header lists handed to setCookiesFromResponse
CookieHeaders ==
  {[name |-> "session", value |-> "auth", domain |-> d] : d \in Hosts \cup {Undefined}}
    \cup {Malformed}
HeaderLists ==
  {<<h>> : h \in CookieHeaders} \cup {<<Malformed, AuthCookie>>, <<AuthCookie, Malformed>>}

CallSetCookiesFromResponse(host, cookies) ==
  /\ client' = [client EXCEPT !["auth"].cookieJar = setCookiesFromResponse(@, host, cookies)]
  /\ lastCall' = [op |-> "setCookiesFromResponse", args |-> <<host, cookies>>,
                  result |-> FALSE, pre |-> client["auth"], at |-> now,
                  touched |-> lastCall.touched]
  /\ UNCHANGED <<now, authStatus, remoteToken, authOp, cartOp, locOp, cartCache,
                 productCache, areaCache, currentAddress, lastAttempt,
                 productOp, areaCachedAt, served,
                 orderHeap, ordersCache, orderCall,
                 inFlight, remoteCart, cartFetchedAt>>

needsRenewal_Mutant(sd, t, timeout) ==
  sd.isAuthenticated /\ 5 * sd.expiresAt <= timeout + 5 * t
\* SessionManager.needsRenewal at time t of a SessionManager whose sessionTimeout
\* is timeout: false when not authenticated, otherwise
\* expiresAt - now < sessionTimeout * 0.2 (here with both sides times 5)
needsRenewal(sd, t, timeout) ==
  sd.isAuthenticated /\ 5 * sd.expiresAt < timeout + 5 * t

\* needsRenewal() called at time t on a SessionManager configured with timeout,
\* whose session was set at time start (authenticated by setAuthenticated, or
\* not authenticated) and so expires at start + timeout
CallNeedsRenewal(timeout, auth, start, t) ==
  LET sd == [sessionId |-> IF auth THEN "sid" ELSE Undefined,
             userId |-> Undefined, email |-> Undefined,
             isAuthenticated |-> auth,
             lastActivity |-> start, expiresAt |-> start + timeout]
  IN lastCall' = [op |-> "needsRenewal", args |-> <<timeout>>,
                  result |-> needsRenewal(sd, t, timeout),
                  pre |-> [NewClient(0) EXCEPT !.sessionData = sd],
                  at |-> t, touched |-> lastCall.touched]
  /\ UNCHANGED <<now, client, authStatus, remoteToken, authOp, cartOp, locOp, cartCache,
                 productCache, areaCache, currentAddress, lastAttempt,
                 productOp, areaCachedAt, served,
                 orderHeap, ordersCache, orderCall,
                 inFlight, remoteCart, cartFetchedAt>>

\* time passes, up to the horizon of the unit specifications
Elapse ==
  /\ now < MaxTime
  /\ now' = now + 1
  /\ UNCHANGED <<client, authStatus, remoteToken, authOp, cartOp, locOp, cartCache,
                 productCache, areaCache, currentAddress, lastCall, lastAttempt,
                 productOp, areaCachedAt, served,
                 orderHeap, ordersCache, orderCall,
                 inFlight, remoteCart, cartFetchedAt>>

\* RohlikClient.get / post / put / delete called on one client
ClientRequest(c, resp) ==
  /\ LET r == Request(client, c, now, resp)
     IN /\ client' = r.cl
        /\ lastAttempt' = r.attempt
  /\ UNCHANGED <<now, authStatus, remoteToken, authOp, cartOp, locOp, cartCache,
                 productCache, areaCache, currentAddress, lastCall,
                 productOp, areaCachedAt, served,
                 orderHeap, ordersCache, orderCall,
                 inFlight, remoteCart, cartFetchedAt>>

(***************************************************************************)
(* HtmlParserService: the extraction of products from markup               *)
(*                                                                         *)
(* A text is a sequence of characters.  A number is counted in hundredths  *)
(* (57.90 is 5790); a value that may be undefined is a set holding the     *)
(* value or nothing, and so is an entity that may be null.                 *)
(***************************************************************************)

NoNumber == {}
Num(n) == {n}
Val(s) == CHOOSE n \in s : TRUE
Null == {}

DigitChars == <<"0", "1", "2", "3", "4", "5", "6", "7", "8", "9">>
Digits == {DigitChars[i] : i \in 1..Len(DigitChars)}
DigitValue(c) == (CHOOSE i \in 1..Len(DigitChars) : DigitChars[i] = c) - 1

\* the value of a run of digits
RECURSIVE DigitsValue(_)
DigitsValue(ds) ==
  IF ds = <<>> THEN 0
  ELSE 10 * DigitsValue(SubSeq(ds, 1, Len(ds) - 1)) + DigitValue(ds[Len(ds)])

\* the longest run of digits s starts with
DigitPrefix(s) ==
  LET n == CHOOSE k \in 0..Len(s) :
             /\ \A i \in 1..k : s[i] \in Digits
             /\ (k = Len(s) \/ s[k + 1] \notin Digits)
  IN SubSeq(s, 1, n)

\* parseFloat of a text made of digits, '.', ',' and '-': an optional sign, a
\* run of digits, an optional '.' and a second run; what follows is ignored;
\* NaN (no number) when both runs are empty.  The value is kept to two decimals.
parseFloat(s) ==
  LET negative == s # <<>> /\ s[1] = "-"
      body == IF negative THEN Tail(s) ELSE s
      whole == DigitPrefix(body)
      rest == SubSeq(body, Len(whole) + 1, Len(body))
      fraction == IF rest # <<>> /\ rest[1] = "." THEN DigitPrefix(Tail(rest)) ELSE <<>>
      hundredths == IF fraction = <<>> THEN 0
                    ELSE IF Len(fraction) = 1 THEN 10 * DigitValue(fraction[1])
                    ELSE DigitsValue(SubSeq(fraction, 1, 2))
      magnitude == 100 * DigitsValue(whole) + hundredths
  IN IF whole = <<>> /\ fraction = <<>> THEN NoNumber
     ELSE Num(IF negative THEN 0 - magnitude ELSE magnitude)

\* String.replace(',', '.'): the first comma only
ReplaceFirstComma(s) ==
  IF \E i \in 1..Len(s) : s[i] = ","
  THEN LET first == CHOOSE i \in 1..Len(s) : s[i] = "," /\ \A j \in 1..(i - 1) : s[j] # ","
       IN [s EXCEPT ![first] = "."]
  ELSE s

IsPriceChar(c) == c \in Digits \cup {",", ".", "-"}

\* HtmlParserService.parsePrice: undefined for an empty text; otherwise every
\* character but digits, ',', '.' and '-' is removed, the first ',' becomes
\* '.', and parseFloat decides; NaN gives undefined
parsePrice(priceText) ==
  IF priceText = <<>> THEN NoNumber
  ELSE parseFloat(ReplaceFirstComma(SelectSeq(priceText, IsPriceChar)))

\* a product page, by what the selectors find in it: the text of the first
\* name element ("" when none has text), the text of the price element and of
\* the original-price element, whether an out-of-stock element exists
extractProductName(page) == page.name
extractPrice(page) == parsePrice(page.priceText)
extractOriginalPrice(page) == parsePrice(page.originalPriceText)

\* HtmlParserService.extractStockStatus: false when an out-of-stock element
\* exists, true otherwise
extractStockStatus(page) == ~page.marker

\* a number is truthy when it is defined and not 0
Truthy(n) == n # NoNumber /\ Val(n) # 0

\* floor(a / b) for b # 0
FloorDiv(a, b) == IF b > 0 THEN a \div b ELSE (0 - a) \div (0 - b)

\* Math.round(((originalPrice - price) / originalPrice) * 100): the nearest
\* integer, a half going up
DiscountOf(originalPrice, price) ==
  FloorDiv(200 * (originalPrice - price) + originalPrice, 2 * originalPrice)

UnknownProduct == "Unknown Product"

\* HtmlParserService.parseProductPage: the entity is built whatever was found
\* (name || 'Unknown Product', price || 0); the discount is computed when
\* originalPrice and price are both truthy
parseProductPage(page, productId) ==
  LET name == extractProductName(page)
      price == extractPrice(page)
      originalPrice == extractOriginalPrice(page)
      inStock == extractStockStatus(page)
      discount == IF Truthy(originalPrice) /\ Truthy(price)
                  THEN Num(DiscountOf(Val(originalPrice), Val(price)))
                  ELSE NoNumber
  IN {[id |-> productId,
       name |-> IF name # "" THEN name ELSE UnknownProduct,
       price |-> IF Truthy(price) THEN Val(price) ELSE 0,
       originalPrice |-> originalPrice,
       discount |-> discount,
       inStock |-> inStock]}

\* HtmlParserService.extractProductId: the card's id attribute ("" when the
\* card has none and no link carries one)
extractProductId(card) == card.id

\* HtmlParserService.parseProductCard: null without a name or without a price
\* that parses; the card's markers are not looked at
parseProductCard(card, productId) ==
  LET name == card.name
      price == parsePrice(card.priceText)
  IN IF name = "" \/ price = NoNumber THEN Null
     ELSE {[id |-> productId, name |-> name, price |-> Val(price),
            originalPrice |-> NoNumber, discount |-> NoNumber, inStock |-> TRUE]}

RECURSIVE parseProductList_Mutant(_)
parseProductList_Mutant(cards) ==
  IF cards = <<>> THEN <<>>
  ELSE LET card == Head(cards)
           productId == extractProductId(card)
       IN IF productId # "" /\ parseProductCard(card, productId) # Null
          THEN <<Val(parseProductCard(card, productId))>>
                 \o parseProductList_Mutant(Tail(cards))
          ELSE <<>>
\* HtmlParserService.parseProductList: every matched element in document order;
\* one without an id, or whose card gives null, adds nothing
RECURSIVE parseProductList(_)
parseProductList(cards) ==
  IF cards = <<>> THEN <<>>
  ELSE LET card == Head(cards)
           productId == extractProductId(card)
       IN (IF productId # "" /\ parseProductCard(card, productId) # Null
           THEN <<Val(parseProductCard(card, productId))>>
           ELSE <<>>)
            \o parseProductList(Tail(cards))

(* ---- the parser called on its own ---- *)

\* the characters of the texts: two digits, the decimal comma, the sign, a letter
TextChars == {"0", "5", ",", "-", "a"}
RECURSIVE TextsOfLength(_)
TextsOfLength(n) ==
  IF n = 0 THEN {<<>>}
  ELSE {Append(s, c) : s \in TextsOfLength(n - 1), c \in TextChars}

\* the texts of the specification's examples: "abc", "57,90 Kč", "88,90 Kč"
ExampleAbc == <<"a", "b", "c">>
ExamplePrice == <<"5", "7", ",", "9", "0", " ", "K", "c">>
ExampleOriginalPrice == <<"8", "8", ",", "9", "0", " ", "K", "c">>

PriceTexts ==
  UNION {TextsOfLength(n) : n \in 0..MaxText}
    \cup {ExampleAbc, ExamplePrice, ExampleOriginalPrice}

Pages ==
  [name : {"", "Milk"}, priceText : PriceTexts, originalPriceText : PriceTexts,
   marker : BOOLEAN]

\* the cards of a list page: well-formed ones, and ones without an id, without
\* a name, without a price text, with a price text that holds no number; with
\* or without an out-of-stock marker
Cards ==
  {[id |-> "1", name |-> "Milk", priceText |-> <<"5">>, marker |-> FALSE],
   [id |-> "2", name |-> "Bread", priceText |-> <<"5", ",", "5">>, marker |-> TRUE],
   [id |-> "", name |-> "Milk", priceText |-> <<"5">>, marker |-> FALSE],
   [id |-> "3", name |-> "", priceText |-> <<"5">>, marker |-> FALSE],
   [id |-> "4", name |-> "Milk", priceText |-> <<>>, marker |-> FALSE],
   [id |-> "5", name |-> "Milk", priceText |-> ExampleAbc, marker |-> FALSE]}

RECURSIVE CardLists(_)
CardLists(n) ==
  IF n = 0 THEN {<<>>}
  ELSE CardLists(n - 1) \cup {Append(s, c) : s \in {l \in CardLists(n - 1) : Len(l) = n - 1},
                                              c \in Cards}

NoCall ==
  [op |-> "none", args |-> <<>>, result |-> FALSE, pre |-> NewClient(0), at |-> 0,
   touched |-> 0]

\* a function evaluated on its own: lastCall keeps the operation, its input and
\* its result
Evaluated(op, input, result) ==
  /\ lastCall' = [op |-> op, args |-> <<input>>, result |-> result,
                  pre |-> NewClient(0), at |-> now, touched |-> lastCall.touched]
  /\ UNCHANGED <<now, client, authStatus, remoteToken, authOp, cartOp, locOp, cartCache,
                 productCache, areaCache, currentAddress, lastAttempt,
                 productOp, areaCachedAt, served,
                 orderHeap, ordersCache, orderCall,
                 inFlight, remoteCart, cartFetchedAt>>

CallParsePrice(priceText) == Evaluated("parsePrice", priceText, parsePrice(priceText))

CallParseProductPage(page) ==
  Evaluated("parseProductPage", page, parseProductPage(page, "1"))

CallParseProductCard(card) ==
  /\ extractProductId(card) # ""
  /\ Evaluated("parseProductCard", card, parseProductCard(card, card.id))

CallParseProductList(cards) ==
  Evaluated("parseProductList", cards, parseProductList(cards))


(* ---- SessionManager.getSessionInfo and AuthService.checkLoginSuccess ---- *)

\* the length of the sessionId prefix getSessionInfo shows
PrefixLength == 8
Ellipsis == <<".", ".", ".">>
Stars == <<"*", "*", "*">>

\* String.replace(/(.{2}).*(@.*)/, '$1***$2'): when an '@' follows the first two
\* characters, they, three stars, and the text from the last '@' on; otherwise
\* the text as it is
MaskEmail(email) ==
  LET ats == {i \in 3..Len(email) : email[i] = "@"}
  IN IF ats = {} THEN email
     ELSE LET last == CHOOSE i \in ats : \A j \in ats : j <= i
          IN SubSeq(email, 1, 2) \o Stars \o SubSeq(email, last, Len(email))

\* SessionManager.getSessionInfo; an identifier is here a text, the empty text
\* standing for undefined
getSessionInfo(sd) ==
  [isAuthenticated |-> sd.isAuthenticated,
   lastActivity |-> sd.lastActivity,
   expiresAt |-> sd.expiresAt,
   sessionId |-> IF sd.sessionId # <<>>
                 THEN SubSeq(sd.sessionId, 1, Min(PrefixLength, Len(sd.sessionId)))
                        \o Ellipsis
                 ELSE <<>>,
   userId |-> sd.userId,
   email |-> IF sd.email # <<>> THEN MaskEmail(sd.email) ELSE <<>>]

\* identifiers of several lengths, shorter and longer than the prefix shown
IdOfLength(n) == [i \in 1..n |-> DigitChars[(i % 10) + 1]]
SessionIdTexts == {IdOfLength(n) : n \in {4, 8, 12}}
UserIdTexts == {IdOfLength(n) : n \in {0, 4}}
EmailTexts ==
  {<<>>, <<"a", "b", "c", "@", "x">>, <<"a", "b", "@", "x">>, <<"a", "@", "x">>,
   <<"a", "b", "c">>}

\* the session states: as constructed or cleared, and as setAuthenticated leaves it
SessionStates ==
  {[FreshSession(0) EXCEPT !.sessionId = <<>>, !.userId = <<>>, !.email = <<>>]}
    \cup {setAuthenticated(sid, uid, mail, 0) :
            sid \in SessionIdTexts, uid \in UserIdTexts, mail \in EmailTexts}

CallGetSessionInfo(sd) == Evaluated("getSessionInfo", sd, getSessionInfo(sd))

CallCheckLoginSuccess(reply, setCookie) ==
  Evaluated("checkLoginSuccess", [reply |-> reply, setCookie |-> setCookie],
            checkLoginSuccess(reply, setCookie))

(***************************************************************************)
(* OrderService: the orders cache (one order id)                           *)
(*                                                                         *)
(* An Order is an object: the cache and the callers hold references to it. *)
(***************************************************************************)

NoOrder == [status |-> "none", updatedAt |-> 0]
\* the last call of the OrderService: the operation, whether the caller was
\* authenticated, whether the call asked the remote (called client.get or
\* client.post), what it returned, and the Order handed out as the caller saw it
NoOrderCall ==
  [op |-> "none", auth |-> FALSE, asked |-> FALSE, result |-> "none", ref |-> 0,
   seen |-> NoOrder]

\* the statuses parseOrderStatus reads from the remote's page
OrderStatuses == {"confirmed", "cancelled"}

\* the call ends without handing out an Order
OrderCallEnds(op, asked, result) ==
  orderCall' = [orderCall EXCEPT !.op = op, !.auth = authStatus, !.asked = asked,
                                 !.result = result]

\* the call hands the Order at ref to its caller, who sees it as it then is
OrderHanded(op, asked, heap, ref) ==
  orderCall' = [op |-> op, auth |-> authStatus, asked |-> asked, result |-> "order",
                ref |-> ref, seen |-> heap[ref]]

\* OrderService.getOrder: null when not authenticated; the cached Order when
\* there is one; otherwise the order page is fetched and parsed, and the Order,
\* when parsed, is put into the cache and returned; every throw gives null
GetOrderAs(op, resp, parsed, status) ==
  /\ IF ~authStatus
     THEN /\ OrderCallEnds(op, FALSE, "null")
          /\ UNCHANGED <<client, lastAttempt, orderHeap, ordersCache>>
     ELSE IF ordersCache # 0
     THEN /\ OrderHanded(op, FALSE, orderHeap, ordersCache)
          /\ UNCHANGED <<client, lastAttempt, orderHeap, ordersCache>>
     ELSE LET r == Request(client, "order", now, resp)
              heap == Append(orderHeap, [status |-> status, updatedAt |-> now])
          IN /\ client' = r.cl
             /\ lastAttempt' = r.attempt
             /\ IF r.result = "ok" /\ parsed
                THEN /\ Len(orderHeap) < MaxOrders
                     /\ orderHeap' = heap
                     /\ ordersCache' = Len(heap)
                     /\ OrderHanded(op, TRUE, heap, Len(heap))
                ELSE /\ OrderCallEnds(op, TRUE, "null")
                     /\ UNCHANGED <<orderHeap, ordersCache>>
  /\ UNCHANGED <<now, authStatus, remoteToken, authOp, cartOp, locOp, cartCache,
                 productCache, areaCache, currentAddress, lastCall,
                 productOp, areaCachedAt, served,
                 inFlight, remoteCart, cartFetchedAt>>

GetOrder(resp, parsed, status) == GetOrderAs("getOrder", resp, parsed, status)

\* OrderService.trackOrder: it awaits this.getOrder(orderId) and returns what
\* that returns; getOrder throws nothing, so the catch is never entered
TrackOrder(resp, parsed, status) == GetOrderAs("trackOrder", resp, parsed, status)

\* OrderService.getOrderHistory: the orders page is fetched and parsed, and every
\* Order parsed replaces the cache's entry for its id; [] when not authenticated
\* and on every throw
GetOrderHistory(resp, listed, status) ==
  /\ IF ~authStatus
     THEN /\ OrderCallEnds("getOrderHistory", FALSE, "empty")
          /\ UNCHANGED <<client, lastAttempt, orderHeap, ordersCache>>
     ELSE LET r == Request(client, "order", now, resp)
              heap == Append(orderHeap, [status |-> status, updatedAt |-> now])
          IN /\ client' = r.cl
             /\ lastAttempt' = r.attempt
             /\ IF r.result = "ok" /\ listed
                THEN /\ Len(orderHeap) < MaxOrders
                     /\ orderHeap' = heap
                     /\ ordersCache' = Len(heap)
                     /\ OrderHanded("getOrderHistory", TRUE, heap, Len(heap))
                ELSE /\ OrderCallEnds("getOrderHistory", TRUE, "empty")
                     /\ UNCHANGED <<orderHeap, ordersCache>>
  /\ UNCHANGED <<now, authStatus, remoteToken, authOp, cartOp, locOp, cartCache,
                 productCache, areaCache, currentAddress, lastCall,
                 productOp, areaCachedAt, served,
                 inFlight, remoteCart, cartFetchedAt>>

\* OrderService.cancelOrder: false when not authenticated and on every throw;
\* the cancellation is posted, and on status 200 the cached Order, when there is
\* one, gets the status CANCELLED and a new updatedAt, and is set again under
\* its id
CancelOrder(resp, status200) ==
  /\ IF ~authStatus
     THEN /\ OrderCallEnds("cancelOrder", FALSE, "false")
          /\ UNCHANGED <<client, lastAttempt, orderHeap>>
     ELSE LET r == Request(client, "order", now, resp)
              success == r.result = "ok" /\ status200
          IN /\ client' = r.cl
             /\ lastAttempt' = r.attempt
             /\ orderHeap' = IF success /\ ordersCache # 0
                             THEN [orderHeap EXCEPT ![ordersCache] =
                                     [status |-> "cancelled", updatedAt |-> now]]
                             ELSE orderHeap
             /\ OrderCallEnds("cancelOrder", TRUE, IF success THEN "true" ELSE "false")
  /\ UNCHANGED <<now, authStatus, remoteToken, authOp, cartOp, locOp, cartCache,
                 productCache, areaCache, currentAddress, lastCall,
                 productOp, areaCachedAt, served, ordersCache,
                 inFlight, remoteCart, cartFetchedAt>>

(***************************************************************************)
(* calls whose request is in flight: the request interceptor has run, the  *)
(* response interceptor has not yet                                        *)
(***************************************************************************)

\* the largest number of mutations the remote applies to the cart
MaxMutations == 1

\* the request interceptor of client c at time t: consume a point or throw
\* 'Rate limit exceeded'; updateActivity
RequestSend(cl, c, t) ==
  LET rl == Consume(cl[c].rateLimiter, t)
      fresh == ~WindowOpen(cl[c].rateLimiter, t)
  IN IF ~Allowed(rl)
     THEN [cl |-> [cl EXCEPT ![c].rateLimiter = rl], sent |-> FALSE]
     ELSE [cl |-> [cl EXCEPT
                     ![c].rateLimiter = rl,
                     ![c].sessionData = updateActivity(@, t),
                     ![c].sent = IF fresh THEN 1 ELSE Min(@ + 1, RequestsPerMinute + 1)],
           sent |-> TRUE]

\* the response interceptor of client c: the Set-Cookie headers of a resolved
\* response are stored in the jar the client's SessionManager then has
ResponseReceive(cl, c, resp) ==
  [cl EXCEPT ![c].cookieJar = IF resp.kind = "ok"
                              THEN setCookiesFromResponse(@, BaseHost, resp.setCookie)
                              ELSE @]

\* CartService.getCart up to its await: the throw when not authenticated, or the
\* GET of the cart page, which the remote serves with the cart as it then is
GetCartStart(p) ==
  /\ inFlight[p].pc \in {"idle", "done"}
  /\ IF ~authStatus
     THEN /\ inFlight' = [inFlight EXCEPT ![p] =
                            [NoExchange EXCEPT !.op = "getCart", !.pc = "done"]]
          /\ UNCHANGED client
     ELSE LET s == RequestSend(client, "cart", now)
          IN /\ client' = s.cl
             /\ inFlight' = [inFlight EXCEPT ![p] =
                               [NoExchange EXCEPT !.op = "getCart", !.by = "cart",
                                                  !.pc = IF s.sent THEN "sent" ELSE "done",
                                                  !.fetched = remoteCart]]
  /\ UNCHANGED <<now, authStatus, remoteToken, authOp, cartOp, locOp, cartCache,
                 productCache, areaCache, currentAddress, lastCall, lastAttempt,
                 productOp, areaCachedAt, served,
                 orderHeap, ordersCache, orderCall, remoteCart, cartFetchedAt>>

\* CartService.getCart from its await on, in a call of its own or as the last
\* step of a mutation: the parsed cart page is put into cartCache and returned;
\* a failed request is thrown again
GetCartFinish(p, resp) ==
  /\ inFlight[p].pc = "sent"
  /\ inFlight[p].op \in {"getCart", "mutation"}
  /\ client' = ResponseReceive(client, "cart", resp)
  /\ IF resp.kind = "ok"
     THEN /\ cartCache' = "cart"
          /\ cartFetchedAt' = inFlight[p].fetched
     ELSE UNCHANGED <<cartCache, cartFetchedAt>>
  /\ inFlight' = [inFlight EXCEPT ![p].pc = "done", ![p].ok = (resp.kind = "ok")]
  /\ UNCHANGED <<now, authStatus, remoteToken, authOp, cartOp, locOp,
                 productCache, areaCache, currentAddress, lastCall, lastAttempt,
                 productOp, areaCachedAt, served,
                 orderHeap, ordersCache, orderCall, remoteCart>>

\* a cart mutation (addToCart after its product lookup, updateCartItem,
\* removeFromCart) up to the await of its getCart: the throw when not
\* authenticated; the structured call, which the remote applies when it answers
\* success; then cartCache = null and getCart's request
CartMutationStart(p, rApi, reply) ==
  /\ inFlight[p].pc \in {"idle", "done"}
  /\ remoteCart < MaxMutations
  /\ IF ~authStatus
     THEN /\ inFlight' = [inFlight EXCEPT ![p] =
                            [NoExchange EXCEPT !.op = "mutation", !.pc = "done"]]
          /\ UNCHANGED <<client, lastAttempt, cartCache, remoteCart>>
     ELSE LET a == Request(client, "cart", now, rApi)
              s == RequestSend(a.cl, "cart", now)
          IN /\ lastAttempt' = a.attempt
             /\ IF ViaApi(a.result, reply) = "true"
                THEN /\ client' = s.cl
                     /\ remoteCart' = remoteCart + 1
                     /\ cartCache' = "null"
                     /\ inFlight' = [inFlight EXCEPT ![p] =
                                       [NoExchange EXCEPT
                                          !.op = "mutation", !.by = "cart",
                                          !.pc = IF s.sent THEN "sent" ELSE "done",
                                          !.fetched = remoteCart + 1,
                                          !.applied = remoteCart + 1]]
                ELSE /\ client' = a.cl
                     /\ inFlight' = [inFlight EXCEPT ![p] =
                                       [NoExchange EXCEPT !.op = "mutation", !.by = "cart",
                                                          !.pc = "done"]]
                     /\ UNCHANGED <<cartCache, remoteCart>>
  /\ UNCHANGED <<now, authStatus, remoteToken, authOp, cartOp, locOp,
                 productCache, areaCache, currentAddress, lastCall,
                 productOp, areaCachedAt, served,
                 orderHeap, ordersCache, orderCall, cartFetchedAt>>

\* AuthService.validateSession up to its await: false at once when authStatus is
\* not authenticated; the GET of the profile page, whose rejection by the rate
\* limiter is caught and resets authStatus
ValidateSessionStart(p) ==
  /\ inFlight[p].pc \in {"idle", "done"}
  /\ IF ~authStatus
     THEN /\ inFlight' = [inFlight EXCEPT ![p] =
                            [NoExchange EXCEPT !.op = "validateSession", !.pc = "done"]]
          /\ UNCHANGED <<client, authStatus>>
     ELSE LET s == RequestSend(client, "auth", now)
          IN /\ client' = s.cl
             /\ authStatus' = s.sent
             /\ inFlight' = [inFlight EXCEPT ![p] =
                               [NoExchange EXCEPT !.op = "validateSession", !.by = "auth",
                                                  !.pc = IF s.sent THEN "sent" ELSE "done"]]
  /\ UNCHANGED <<now, remoteToken, authOp, cartOp, locOp, cartCache,
                 productCache, areaCache, currentAddress, lastCall, lastAttempt,
                 productOp, areaCachedAt, served,
                 orderHeap, ordersCache, orderCall, remoteCart, cartFetchedAt>>

\* AuthService.validateSession from its await on: the response interceptor
\* stores the Set-Cookie headers of a resolved response; a session found not
\* valid, and every throw, resets authStatus
ValidateSessionFinish(p, resp, hasLoginForm, hasUserContent, status200) ==
  /\ inFlight[p].pc = "sent"
  /\ inFlight[p].op = "validateSession"
  /\ LET isValid == /\ resp.kind = "ok"
                    /\ ~hasLoginForm /\ (hasUserContent \/ status200)
     IN /\ client' = ResponseReceive(client, "auth", resp)
        /\ authStatus' = (authStatus /\ isValid)
        /\ inFlight' = [inFlight EXCEPT ![p].pc = "done", ![p].ok = isValid]
  /\ UNCHANGED <<now, remoteToken, authOp, cartOp, locOp, cartCache,
                 productCache, areaCache, currentAddress, lastCall, lastAttempt,
                 productOp, areaCachedAt, served,
                 orderHeap, ordersCache, orderCall, remoteCart, cartFetchedAt>>

(***************************************************************************)
(* OrderService.validateCheckout and OrderService.checkout                 *)
(***************************************************************************)

\* the value of an object's property: {} (undefined) when the object has no
\* property of that name
Property(obj, name) == IF name \in DOMAIN obj THEN {obj[name]} ELSE {}
\* value || 0
OrZero(v) == IF v = {} THEN 0 ELSE CHOOSE x \in v : TRUE

\* validateCheckout's minOrderValue
MinOrderValue == 500

\* the CartSummary parseCartFromHtml makes of the cart page, by the number of
\* its items and its totalPrice (its other properties are totalItems,
\* deliveryFee, finalTotal, currency and lastUpdated)
CartSummaries ==
  {[items |-> 0, totalPrice |-> 0],
   [items |-> 1, totalPrice |-> MinOrderValue - 1],
   [items |-> 1, totalPrice |-> MinOrderValue]}
NoCartSummary == [items |-> 0, totalPrice |-> 0]

\* the errors validateCheckout collects for the cart getCart returned and the
\* current address: the subtotal is cart.total || 0
CheckoutErrors(cart, address) ==
  (IF cart.items = 0 THEN {"Cart is empty"} ELSE {})
    \cup (IF ~address THEN {"Delivery address must be set"} ELSE {})
    \cup (IF OrZero(Property(cart, "total")) < MinOrderValue
          THEN {"Minimum order value"} ELSE {})

\* OrderService.validateCheckout at time t: not valid at once when not
\* authenticated; cartService.getCart() (a throw is caught: not valid);
\* calculateDeliveryFee reads the delivery area cached when the address was set
\* and asks the remote nothing; getAvailablePaymentMethods GETs the checkout
\* page and falls back to defaults on every error; checkInventoryAvailability
\* reports every item available; isValid = no error collected
validateCheckout(cl, att, t, rCart, cart, rPay) ==
  LET g == Request(cl, "cart", t, rCart)
      p == Request(g.cl, "order", t, rPay)
  IN IF ~authStatus
     THEN [cl |-> cl, attempt |-> att, fetched |-> FALSE, isValid |-> FALSE]
     ELSE IF g.result # "ok"
     THEN [cl |-> g.cl, attempt |-> g.attempt, fetched |-> FALSE, isValid |-> FALSE]
     ELSE [cl |-> p.cl, attempt |-> p.attempt, fetched |-> TRUE,
           isValid |-> CheckoutErrors(cart, currentAddress) = {}]

\* validateCheckout called on its own; lastCall keeps whether the caller was
\* authenticated, whether getCart returned, the cart it returned, whether an
\* address was set, and isValid
ValidateCheckout(rCart, cart, rPay) ==
  /\ LET v == validateCheckout(client, lastAttempt, now, rCart, cart, rPay)
     IN /\ client' = v.cl
        /\ lastAttempt' = v.attempt
        /\ cartCache' = IF v.fetched THEN "cart" ELSE cartCache
        /\ lastCall' = [op |-> "validateCheckout",
                        args |-> <<authStatus, v.fetched, cart, currentAddress>>,
                        result |-> v.isValid, pre |-> client["order"], at |-> now,
                        touched |-> lastCall.touched]
  /\ UNCHANGED <<now, authStatus, remoteToken, authOp, cartOp, locOp, productCache,
                 areaCache, currentAddress,
                 productOp, areaCachedAt, served,
                 orderHeap, ordersCache, orderCall,
                 inFlight, remoteCart, cartFetchedAt>>

\* OrderService.submitOrderToRohlik: GET the checkout page, read the token
\* (missing: throw), POST the order, parse the confirmation; every throw is
\* caught inside and gives {success: false}
submitOrderToRohlik(cl, t, rPage, rSubmit, parsed) ==
  LET pg == Request(cl, "order", t, rPage)
      sb == Request(pg.cl, "order", t, rSubmit)
  IN IF pg.result # "ok" \/ ~remoteToken
     THEN [cl |-> pg.cl, attempt |-> pg.attempt, success |-> FALSE]
     ELSE [cl |-> sb.cl, attempt |-> sb.attempt, success |-> sb.result = "ok" /\ parsed]

\* CartService.clearCart for a cart of the given number of items: getCart,
\* removeFromCart for each item (removeFromCartViaApi, which throws nothing, so
\* that the form path is not entered; then cartCache = null and getCart),
\* cartCache = null, getCart; a throw of any of them is thrown again.  cache is
\* what the call leaves in cartCache ("keep": what it was)
clearCart(cl, t, items, rGet, rApi, reply) ==
  LET g1 == Request(cl, "cart", t, rGet)
      a == Request(g1.cl, "cart", t, rApi)
      m == [cl |-> a.cl, attempt |-> a.attempt,
            success |-> ViaApi(a.result, reply) = "true"]
      g2 == Request(m.cl, "cart", t, rGet)
      before == IF items = 0 THEN g1 ELSE g2
      g3 == Request(before.cl, "cart", t, rGet)
  IN IF g1.result # "ok"
     THEN [cl |-> g1.cl, attempt |-> g1.attempt, threw |-> TRUE, cache |-> "keep"]
     ELSE IF items > 0 /\ ~m.success
     THEN [cl |-> m.cl, attempt |-> m.attempt, threw |-> TRUE, cache |-> "cart"]
     ELSE IF items > 0 /\ g2.result # "ok"
     THEN [cl |-> g2.cl, attempt |-> g2.attempt, threw |-> TRUE, cache |-> "null"]
     ELSE [cl |-> g3.cl, attempt |-> g3.attempt, threw |-> g3.result # "ok",
           cache |-> IF g3.result = "ok" THEN "cart" ELSE "null"]

\* OrderService.checkout: {success: false} at once when not authenticated and
\* when validateCheckout says not valid; then getCart, the current address,
\* submitOrderToRohlik; after an accepted submission clearCart is awaited and
\* the Order is cached; the catch of every throw returns {success: false}.
\* lastCall keeps whether the remote accepted an order, and success
Checkout(rCart, cart, rPay, rCart2, rPage, rSubmit, parsed, rGet, rApi, reply) ==
  /\ LET v == validateCheckout(client, lastAttempt, now, rCart, cart, rPay)
         g == Request(v.cl, "cart", now, rCart2)
         s == submitOrderToRohlik(g.cl, now, rPage, rSubmit, parsed)
         c == clearCart(s.cl, now, cart.items, rGet, rApi, reply)
         heap == Append(orderHeap, [status |-> "confirmed", updatedAt |-> now])
         Returns(cl, att, cache, accepted, success) ==
           /\ client' = cl
           /\ lastAttempt' = att
           /\ cartCache' = IF cache = "keep" THEN cartCache ELSE cache
           /\ lastCall' = [op |-> "checkout", args |-> <<accepted>>,
                           result |-> success, pre |-> client["order"], at |-> now,
                           touched |-> lastCall.touched]
     IN IF ~v.isValid
        THEN /\ Returns(v.cl, v.attempt, IF v.fetched THEN "cart" ELSE "keep",
                        FALSE, FALSE)
             /\ UNCHANGED <<orderHeap, ordersCache>>
        ELSE IF g.result # "ok"
        THEN /\ Returns(g.cl, g.attempt, "cart", FALSE, FALSE)
             /\ UNCHANGED <<orderHeap, ordersCache>>
        ELSE IF ~currentAddress \/ ~s.success
        THEN /\ Returns(s.cl, s.attempt, "cart", FALSE, FALSE)
             /\ UNCHANGED <<orderHeap, ordersCache>>
        ELSE IF c.threw
        THEN /\ Returns(c.cl, c.attempt, IF c.cache = "keep" THEN "cart" ELSE c.cache,
                        TRUE, FALSE)
             /\ UNCHANGED <<orderHeap, ordersCache>>
        ELSE /\ Returns(c.cl, c.attempt, c.cache, TRUE, TRUE)
             /\ Len(orderHeap) < MaxOrders
             /\ orderHeap' = heap
             /\ ordersCache' = Len(heap)
  /\ UNCHANGED <<now, authStatus, remoteToken, authOp, cartOp, locOp, productCache,
                 areaCache, currentAddress,
                 productOp, areaCachedAt, served, orderCall,
                 inFlight, remoteCart, cartFetchedAt>>

(***************************************************************************)
(* LocationService.getDeliverySlots, bookDeliverySlot and getPickupPoints, *)
(* and CartService.clearCart called on its own                             *)
(***************************************************************************)

LocationCall_Mutant(op, ready, resp, answer) ==
  /\ LET r == Request(client, "location", now, resp)
     IN /\ client' = r.cl
        /\ lastAttempt' = r.attempt
        /\ lastCall' = [op |-> op, args |-> <<authStatus>>,
                        result |-> (r.result = "ok" /\ answer),
                        pre |-> client["location"], at |-> now,
                        touched |-> lastCall.touched]
  /\ UNCHANGED <<now, authStatus, remoteToken, authOp, cartOp, locOp, cartCache,
                 productCache, areaCache, currentAddress,
                 productOp, areaCachedAt, served,
                 orderHeap, ordersCache, orderCall,
                 inFlight, remoteCart, cartFetchedAt>>
\* a call of the LocationService that asks the remote once: the throw when not
\* authenticated (and, where the call needs one, when no address is set) is
\* caught in the call and gives its empty value; otherwise the request, whose
\* failure is caught likewise.  lastCall keeps whether the caller was
\* authenticated and whether the call returned what the remote answered
LocationCall(op, ready, resp, answer) ==
  /\ IF ~authStatus \/ ~ready
     THEN /\ lastCall' = [op |-> op, args |-> <<authStatus>>, result |-> FALSE,
                          pre |-> client["location"], at |-> now,
                          touched |-> lastCall.touched]
          /\ UNCHANGED <<client, lastAttempt>>
     ELSE LET r == Request(client, "location", now, resp)
          IN /\ client' = r.cl
             /\ lastAttempt' = r.attempt
             /\ lastCall' = [op |-> op, args |-> <<authStatus>>,
                             result |-> (r.result = "ok" /\ answer),
                             pre |-> client["location"], at |-> now,
                             touched |-> lastCall.touched]
  /\ UNCHANGED <<now, authStatus, remoteToken, authOp, cartOp, locOp, cartCache,
                 productCache, areaCache, currentAddress,
                 productOp, areaCachedAt, served,
                 orderHeap, ordersCache, orderCall,
                 inFlight, remoteCart, cartFetchedAt>>

\* getDeliverySlots: needs the current address; the slots page is fetched and
\* parsed; [] on every throw
GetDeliverySlots(resp) == LocationCall("getDeliverySlots", currentAddress, resp, TRUE)

\* bookDeliverySlot: the booking is posted; true when the answer has status
\* 200 and data.success === true; false on every throw
BookDeliverySlot(resp, success) == LocationCall("bookDeliverySlot", TRUE, resp, success)

\* getPickupPoints: the pickup points page is fetched and parsed; [] on every
\* throw
GetPickupPoints(resp) == LocationCall("getPickupPoints", TRUE, resp, TRUE)

\* clearCart called on its own, the cart page showing the given number of items
ClearCart(items, rGet, rApi, reply) ==
  /\ IF ~authStatus
     THEN /\ lastCall' = [op |-> "clearCart", args |-> <<authStatus>>, result |-> FALSE,
                          pre |-> client["cart"], at |-> now,
                          touched |-> lastCall.touched]
          /\ UNCHANGED <<client, lastAttempt, cartCache>>
     ELSE LET c == clearCart(client, now, items, rGet, rApi, reply)
          IN /\ client' = c.cl
             /\ lastAttempt' = c.attempt
             /\ cartCache' = IF c.cache = "keep" THEN cartCache ELSE c.cache
             /\ lastCall' = [op |-> "clearCart", args |-> <<authStatus>>,
                             result |-> ~c.threw, pre |-> client["cart"], at |-> now,
                             touched |-> lastCall.touched]
  /\ UNCHANGED <<now, authStatus, remoteToken, authOp, cartOp, locOp,
                 productCache, areaCache, currentAddress,
                 productOp, areaCachedAt, served,
                 orderHeap, ordersCache, orderCall,
                 inFlight, remoteCart, cartFetchedAt>>

(***************************************************************************)
(* the process: the singleton services, their handlers called in any order *)
(***************************************************************************)

Init ==
  /\ now = 0
  /\ client = [c \in Client |-> NewClient(0)]
  /\ authStatus = FALSE
  /\ remoteToken \in BOOLEAN
  /\ authOp = IdleAuthOp
  /\ cartOp = IdleCartOp
  /\ locOp = IdleLocOp
  /\ cartCache = "null"
  /\ productCache = NoProduct
  /\ areaCache = "none"
  /\ currentAddress = FALSE
  /\ lastCall = NoCall
  /\ lastAttempt = NoAttempt
  /\ productOp = [p \in Callers |-> IdleProductOp]
  /\ areaCachedAt = 0
  /\ served = NoneServed
  /\ orderHeap = <<>>
  /\ ordersCache = 0
  /\ orderCall = NoOrderCall
  /\ inFlight = [p \in Callers |-> NoExchange]
  /\ remoteCart = 0
  /\ cartFetchedAt = 0

\* the steps of AuthService.login and AuthService.logout
AuthStep ==
  \/ \E resp \in Responses : LoginFetchPage(resp)
  \/ \E resp \in LoginResponses :
       \E reply \in (IF resp.kind = "ok" THEN LoginReplies ELSE {"none"}) :
         LoginSubmit(resp, reply)
  \/ \E resp \in Responses : LoginProfile(resp)
  \/ \E resp \in (IF authStatus THEN Responses ELSE {NoResponse}) : Logout(resp)

\* the steps of the CartService mutations
CartStep ==
  \/ \E k \in CartKinds : CartRejected(k)
  \/ \E resp \in Responses, parsed \in BOOLEAN : AddToCartLookup(resp, parsed)
  \/ \E k \in CartKinds, rApi \in Responses :
       \E reply \in (IF rApi.kind = "ok" THEN ApiReplies ELSE {"none"}) :
       \E rFetch \in (IF FallbackTaken(ViaApi(rApi.kind, reply)) THEN Responses ELSE {NoResponse}),
          formFound \in (IF FallbackTaken(ViaApi(rApi.kind, reply)) THEN BOOLEAN ELSE {FALSE}),
          rSubmit \in (IF FallbackTaken(ViaApi(rApi.kind, reply)) THEN Responses ELSE {NoResponse}) :
         CartMutation(k, rApi, reply, rFetch, formFound, rSubmit)
  \/ \E resp \in Responses : CartRefresh(resp)

\* the steps of LocationService.setDeliveryAddress
AddressStep ==
  \/ \E formatValid \in BOOLEAN : AddressRejected(formatValid)
  \/ AddressAreaCached
  \/ \E resp \in Responses, reply \in AreaReplies, prague \in BOOLEAN :
       AddressAreaLookup(resp, reply, prague)
  \/ \E resp \in Responses : AddressFetchPage(resp)
  \/ \E resp \in Responses : AddressSubmit(resp)

\* the auth and cart services at work; the remote's markup, which no cart
\* request reads, is the one the run starts with
Next == Tick \/ AuthStep \/ CartStep

Spec == Init /\ [][Next]_vars

\* the auth and location services at work: the operations that submit forms
NextForms == Tick \/ RemoteMarkupChange \/ AuthStep \/ AddressStep

SpecForms == Init /\ [][NextForms]_vars

\* a SessionManager called in any order while time passes
NextSession ==
  \/ Elapse
  \/ \E sid \in SessionIds, uid \in UserIds, mail \in Emails :
       CallSetAuthenticated(sid, uid, mail)
  \/ CallUpdateActivity
  \/ CallIsSessionValid
  \/ CallClearSession
  \/ \E host \in Hosts, cookies \in HeaderLists : CallSetCookiesFromResponse(host, cookies)

SpecSession == Init /\ [][NextSession]_vars

\* the clients whose transport is exercised on its own
TransportClients == {"product", "cart"}

\* what the remote may answer to them: also Set-Cookie headers, on a response
\* axios resolves or on one it rejects for its status
TransportResponses ==
  Responses \cup {[kind |-> k, setCookie |-> <<AuthCookie>>] : k \in {"ok", "http_error"}}

\* RohlikClients used in any order while time passes
NextTransport ==
  \/ Elapse
  \/ \E c \in TransportClients, resp \in TransportResponses : ClientRequest(c, resp)

SpecTransport == Init /\ [][NextTransport]_vars

\* needsRenewal evaluated over session timeouts, session states and times
NextRenewal ==
  \E timeout \in 1..MaxTimeout, auth \in BOOLEAN, start \in 0..MaxStart :
    \E t \in start..(start + timeout + 1) : CallNeedsRenewal(timeout, auth, start, t)

SpecRenewal == Init /\ [][NextRenewal]_vars

\* getProduct called by overlapping callers while time passes
NextLookup ==
  \/ Elapse
  \/ \E p \in Callers : GetProductStart(p)
  \/ \E p \in Callers, resp \in Responses :
       \E parsed \in (IF resp.kind = "ok" THEN BOOLEAN ELSE {FALSE}) :
         GetProductFinish(p, resp, parsed)

SpecLookup == Init /\ [][NextLookup]_vars

\* the auth and location services at work over the longer horizon: the delivery
\* area cache as setDeliveryAddress uses it
NextAreas == Elapse \/ AuthStep \/ AddressStep

SpecAreas == Init /\ [][NextAreas]_vars

\* the steps of the OrderService
OrderStep ==
  \/ \E resp \in (IF authStatus /\ ordersCache = 0 THEN Responses ELSE {NoResponse}) :
       \E parsed \in (IF resp.kind = "ok" THEN BOOLEAN ELSE {FALSE}) :
       \E status \in (IF parsed THEN OrderStatuses ELSE {"none"}) :
         GetOrder(resp, parsed, status)
  \/ \E resp \in (IF authStatus /\ ordersCache = 0 THEN Responses ELSE {NoResponse}) :
       \E parsed \in (IF resp.kind = "ok" THEN BOOLEAN ELSE {FALSE}) :
       \E status \in (IF parsed THEN OrderStatuses ELSE {"none"}) :
         TrackOrder(resp, parsed, status)
  \/ \E resp \in (IF authStatus THEN Responses ELSE {NoResponse}) :
       \E listed \in (IF resp.kind = "ok" THEN BOOLEAN ELSE {FALSE}) :
       \E status \in (IF listed THEN OrderStatuses ELSE {"none"}) :
         GetOrderHistory(resp, listed, status)
  \/ \E resp \in (IF authStatus THEN Responses ELSE {NoResponse}) :
       \E status200 \in (IF resp.kind = "ok" THEN BOOLEAN ELSE {FALSE}) :
         CancelOrder(resp, status200)

\* the auth and order services at work
NextOrders == AuthStep \/ OrderStep

SpecOrders == Init /\ [][NextOrders]_vars

\* the auth service at work while time passes
NextAuth == Elapse \/ AuthStep

SpecAuth == Init /\ [][NextAuth]_vars

\* the handler of POST /api/location/validate: it awaits
\* locationService.setDeliveryAddress(request.body) and answers 200 with the
\* result; its steps are the steps of that call, so the location steps of
\* SpecAreas are as well the steps of a validate request
ValidateAddress == AddressStep

\* requireAuth, the preHandler of the cart routes: 401 when
\* authService.isAuthenticated() is false, otherwise it awaits
\* authService.validateSession()
RequireAuth ==
  \E resp \in (IF authStatus THEN Responses ELSE {NoResponse}) :
    \E hasLoginForm \in (IF resp.kind = "ok" THEN BOOLEAN ELSE {FALSE}),
       hasUserContent \in (IF resp.kind = "ok" THEN BOOLEAN ELSE {FALSE}),
       status200 \in (IF resp.kind = "ok" THEN BOOLEAN ELSE {FALSE}) :
      ValidateSession(resp, hasLoginForm, hasUserContent, status200)

\* the auth service at work with the sessions of requests being validated
NextGuard == Elapse \/ AuthStep \/ RequireAuth

SpecGuard == Init /\ [][NextGuard]_vars

\* the steps of OrderService.validateCheckout and OrderService.checkout; what
\* follows a valid validation is drawn only when the validation is valid
CheckoutValid(rCart, cart, rPay) ==
  validateCheckout(client, lastAttempt, now, rCart, cart, rPay).isValid

\* the answers of the remote to what checkout asks after a valid validation
AfterValidation(valid) ==
  IF valid
  THEN [rCart2 : Responses, rPage : Responses, rSubmit : Responses, parsed : BOOLEAN,
        rGet : Responses, rApi : Responses, reply : ApiReplies]
  ELSE {[rCart2 |-> NoResponse, rPage |-> NoResponse, rSubmit |-> NoResponse,
         parsed |-> FALSE, rGet |-> NoResponse, rApi |-> NoResponse, reply |-> "none"]}

CheckoutStep ==
  \/ \E rCart \in (IF authStatus THEN Responses ELSE {NoResponse}) :
       \E cart \in (IF rCart.kind = "ok" THEN CartSummaries ELSE {NoCartSummary}),
          rPay \in (IF rCart.kind = "ok" THEN Responses ELSE {NoResponse}) :
         ValidateCheckout(rCart, cart, rPay)
  \/ \E rCart \in (IF authStatus THEN Responses ELSE {NoResponse}) :
       \E cart \in (IF rCart.kind = "ok" THEN CartSummaries ELSE {NoCartSummary}),
          rPay \in (IF rCart.kind = "ok" THEN Responses ELSE {NoResponse}) :
       \E rest \in AfterValidation(CheckoutValid(rCart, cart, rPay)) :
         Checkout(rCart, cart, rPay, rest.rCart2, rest.rPage, rest.rSubmit, rest.parsed,
                  rest.rGet, rest.rApi, rest.reply)

\* time passes by one window of the rate limiters
ElapseWindow ==
  /\ now + WindowTicks <= MaxTime
  /\ now' = now + WindowTicks
  /\ UNCHANGED <<client, authStatus, remoteToken, authOp, cartOp, locOp, cartCache,
                 productCache, areaCache, currentAddress, lastCall, lastAttempt,
                 productOp, areaCachedAt, served,
                 orderHeap, ordersCache, orderCall,
                 inFlight, remoteCart, cartFetchedAt>>

\* the auth and location services at work while time passes, up to one call of
\* validateCheckout or checkout
NextCheckout ==
  \/ lastCall.op = "none" /\ ElapseWindow
  \/ lastCall.op = "none" /\ AuthStep
  \/ lastCall.op = "none" /\ AddressStep
  \/ lastCall.op = "none" /\ CheckoutStep

SpecCheckout == Init /\ [][NextCheckout]_vars

\* the auth service and concurrent callers of the cart service at work while
\* time passes
NextCarts ==
  \/ ElapseWindow
  \/ AuthStep
  \/ \E p \in Callers : GetCartStart(p)
  \/ \E p \in Callers, resp \in Responses : GetCartFinish(p, resp)
  \/ \E p \in Callers, rApi \in Responses :
       \E reply \in (IF rApi.kind = "ok" THEN ApiReplies ELSE {"none"}) :
         CartMutationStart(p, rApi, reply)

SpecCarts == Init /\ [][NextCarts]_vars

\* the auth service at work while concurrent requests have their sessions
\* validated and time passes
NextFlight ==
  \/ ElapseWindow
  \/ AuthStep
  \/ \E p \in Callers : ValidateSessionStart(p)
  \/ \E p \in Callers, resp \in TransportResponses :
       \E hasLoginForm \in (IF resp.kind = "ok" THEN BOOLEAN ELSE {FALSE}),
          hasUserContent \in (IF resp.kind = "ok" THEN BOOLEAN ELSE {FALSE}),
          status200 \in (IF resp.kind = "ok" THEN BOOLEAN ELSE {FALSE}) :
         ValidateSessionFinish(p, resp, hasLoginForm, hasUserContent, status200)

SpecFlight == Init /\ [][NextFlight]_vars

\* the calls of the LocationService that ask the remote once, and clearCart
LocationStep ==
  \/ \E resp \in (IF authStatus /\ currentAddress THEN Responses ELSE {NoResponse}) :
       GetDeliverySlots(resp)
  \/ \E resp \in (IF authStatus THEN Responses ELSE {NoResponse}) :
       \E success \in (IF resp.kind = "ok" THEN BOOLEAN ELSE {FALSE}) :
         BookDeliverySlot(resp, success)
  \/ \E resp \in (IF authStatus THEN Responses ELSE {NoResponse}) : GetPickupPoints(resp)

ClearCartStep ==
  \E rGet \in (IF authStatus THEN Responses ELSE {NoResponse}) :
    \E items \in (IF rGet.kind = "ok" THEN {0, 1} ELSE {0}),
       rApi \in (IF rGet.kind = "ok" THEN Responses ELSE {NoResponse}) :
    \E reply \in (IF rApi.kind = "ok" THEN ApiReplies ELSE {"none"}) :
      ClearCart(items, rGet, rApi, reply)

\* the services a run has called so far, the auth service aside
Exercised ==
  (IF cartOp # IdleCartOp THEN {"cart"} ELSE {})
    \cup (IF inFlight # [p \in Callers |-> NoExchange] THEN {"getCart"} ELSE {})
    \cup (IF locOp # IdleLocOp THEN {"address"} ELSE {})
    \cup (IF orderCall # NoOrderCall THEN {"order"} ELSE {})
    \cup (IF lastCall.op = "clearCart" THEN {"clearCart"} ELSE {})
    \cup (IF lastCall.op \in {"validateCheckout", "checkout"} THEN {"checkout"} ELSE {})
    \cup (IF lastCall.op \in {"getDeliverySlots", "bookDeliverySlot", "getPickupPoints"}
          THEN {"location"} ELSE {})

\* every operation that requires authentication, called by callers who log in
\* and out; a run calls the operations of one group
NextGate ==
  \/ AuthStep
  \/ Exercised \subseteq {"cart"} /\ CartStep
  \/ Exercised \subseteq {"getCart"} /\ \E p \in Callers : GetCartStart(p)
  \/ Exercised \subseteq {"getCart"}
       /\ \E p \in Callers, resp \in Responses : GetCartFinish(p, resp)
  \/ Exercised \subseteq {"clearCart"} /\ ClearCartStep
  \/ Exercised \subseteq {"address"} /\ AddressStep
  \/ Exercised \subseteq {"location"} /\ LocationStep
  \/ Exercised \subseteq {"order"} /\ OrderStep
  \/ Exercised \subseteq {"checkout"} /\ CheckoutStep

SpecGate == Init /\ [][NextGate]_vars

\* the parser, getSessionInfo and checkLoginSuccess evaluated over their inputs,
\* one evaluation in a run
NextUnits ==
  \/ lastCall.op = "none" /\ \E priceText \in PriceTexts : CallParsePrice(priceText)
  \/ lastCall.op = "none" /\ \E page \in Pages : CallParseProductPage(page)
  \/ lastCall.op = "none" /\ \E card \in Cards : CallParseProductCard(card)
  \/ lastCall.op = "none"
       /\ \E cards \in CardLists(MaxCards) : CallParseProductList(cards)
  \/ lastCall.op = "none" /\ \E sd \in SessionStates : CallGetSessionInfo(sd)
  \/ lastCall.op = "none"
       /\ \E reply \in LoginReplies, setCookie \in {<<>>, <<AuthCookie>>} :
            CallCheckLoginSuccess(reply, setCookie)

\* none of them reads the remote's markup: the run starts with the token present
InitUnits == Init /\ remoteToken

SpecUnits == InitUnits /\ [][NextUnits]_vars

(***************************************************************************)
(* the claims                                                              *)
(***************************************************************************)

\* C1: whenever the structured call of a cart mutation throws or answers without
\* success = true, the form-submission path is attempted before the outcome of
\* the mutation is decided.  (The ViaApi helpers catch every error and return
\* false, so the mutation's catch block never runs.)
C1_FormPathAfterApiFailure ==
  cartOp.apiReply \in {"no_success", "threw"} => cartOp.formTried

\* C2: when the structured call of a cart mutation reports success, the form path
\* is not attempted: no reference page is fetched, no form is submitted, and
\* exactly one mutating request was sent.
C2_NoFormAfterApiSuccess ==
  cartOp.apiReply = "success" =>
    /\ ~cartOp.formTried
    /\ cartOp.refFetches = 0
    /\ cartOp.formSubmits = 0
    /\ cartOp.mutating = 1

C2_Witness ==
  cartOp.apiReply = "success" /\ cartOp.pc = "done" /\ cartOp.outcome = "returned_cart"

\* C3: in every window of a client's rate limiter at most RequestsPerMinute
\* requests reach the network; an attempt made when the window's points are used
\* up is rejected with the rate-limit error, and a rejected attempt makes no
\* network call.
C3_RateLimit ==
  /\ \A c \in Client : client[c].sent <= RequestsPerMinute
  /\ lastAttempt.exhausted => lastAttempt.result = "rate_limited"
  /\ lastAttempt.result = "rate_limited" => ~lastAttempt.network

C3_Witness ==
  /\ lastAttempt.result = "rate_limited"
  /\ lastAttempt.exhausted
  /\ lastAttempt.by = "product"
  /\ client["product"].sent = RequestsPerMinute
  /\ client["product"].rateLimiter.expiresAt > WindowTicks

\* C4: isSessionValid() returns true exactly when the session is authenticated
\* and now < expiresAt; called on an authenticated session with now >= expiresAt
\* it returns false and leaves the session unauthenticated and the jar empty.
C4_IsSessionValid ==
  lastCall.op = "isSessionValid" =>
    LET pre == lastCall.pre.sessionData
        expired == pre.isAuthenticated /\ lastCall.at >= pre.expiresAt
    IN /\ lastCall.result = (pre.isAuthenticated /\ lastCall.at < pre.expiresAt)
       /\ expired =>
            /\ ~lastCall.result
            /\ client["auth"].sessionData = FreshSession(lastCall.at)
            /\ client["auth"].cookieJar = {}
       /\ ~expired =>
            /\ client["auth"].sessionData = pre
            /\ client["auth"].cookieJar = lastCall.pre.cookieJar

C4_Witness ==
  /\ lastCall.op = "isSessionValid"
  /\ lastCall.pre.sessionData.isAuthenticated
  /\ lastCall.at >= lastCall.pre.sessionData.expiresAt
  /\ lastCall.pre.cookieJar # {}

\* C5 as stated: in every reachable state of the SessionManager, isAuthenticated
\* implies that expiresAt is later than the current time.
C5_AuthenticatedImpliesUnexpired ==
  client["auth"].sessionData.isAuthenticated => now < client["auth"].sessionData.expiresAt

\* C5 as amended: if isAuthenticated is true then expiresAt is later than the time
\* of the last setAuthenticated, updateActivity, isSessionValid or clearSession
\* call; the clock may pass expiresAt afterwards, until the next isSessionValid.
C5_UnexpiredWhenLastCalled ==
  client["auth"].sessionData.isAuthenticated =>
    lastCall.touched < client["auth"].sessionData.expiresAt

C5_Witness ==
  /\ client["auth"].sessionData.isAuthenticated
  /\ lastCall.op = "updateActivity"
  /\ lastCall.pre.sessionData.expiresAt <= lastCall.at
  /\ now >= client["auth"].sessionData.expiresAt

\* C6: after a login the auth service reports as successful, the SessionManager's
\* state is authenticated, so the transport's isAuthenticated() returns true
\* until the session expires or logout is called.
C6_SessionAuthenticatedAfterLogin ==
  (authOp.pc = "done" /\ authOp.outcome = "authenticated" /\ authStatus) =>
    client["auth"].sessionData.isAuthenticated

\* C7: while the cookies of a successful login are held, every request of any
\* service to the same host carries them in its Cookie header.
C7_LoginCookiesOnEveryRequest ==
  (lastAttempt.network /\ lastAttempt.held) => StoredAuthCookie \in lastAttempt.cookie

\* C8: a mutation that ends with no path having succeeded returns a failure value
\* to its caller and does not throw.
C8_FailureIsReturned ==
  (cartOp.pc = "done" /\ cartOp.apiReply \in {"no_success", "threw"}) =>
    cartOp.outcome = "failure_value"

\* C9: when the structured call of a mutation throws and the reference page has
\* no anti-forgery token, the mutation throws a missing-token error instead of
\* returning a failure value.
C9_MissingTokenThrows ==
  (locOp.pc = "done" /\ locOp.areaThrew /\ locOp.fetched /\ ~locOp.tokenFound) =>
    locOp.outcome = "throw_csrf"

C11_ResponseCookiesPersisted ==
  (lastAttempt.by # "none" /\ lastAttempt.network) =>
    \A i \in 1..Len(lastAttempt.offered) :
      LET h == lastAttempt.offered[i]
      IN Accepts(h, BaseHost) =>
           [name |-> h.name, value |-> h.value, domain |-> BaseHost]
             \in getCookieString(client[lastAttempt.by].cookieJar, BaseHost)

\* C12: every request attempt, also one the rate limiter rejects and one that
\* ends in a network or HTTP error, leaves the client's session with
\* lastActivity at the attempt's time and expiresAt a timeout later.
C12_ActivityOnEveryAttempt ==
  lastAttempt.by # "none" =>
    /\ client[lastAttempt.by].sessionData.lastActivity = lastAttempt.at
    /\ client[lastAttempt.by].sessionData.expiresAt = lastAttempt.at + SessionTimeout

\* C13: after clearSession() the session is unauthenticated with no sessionId,
\* userId or email, and getCookieString gives nothing for any host: no cookie
\* stored before the call can be read after it.
C13_ClearSessionLeavesNothing ==
  lastCall.op = "clearSession" =>
    /\ client["auth"].sessionData = FreshSession(lastCall.at)
    /\ ~client["auth"].sessionData.isAuthenticated
    /\ client["auth"].sessionData.sessionId = Undefined
    /\ client["auth"].sessionData.userId = Undefined
    /\ client["auth"].sessionData.email = Undefined
    /\ \A host \in Hosts : getCookieString(client["auth"].cookieJar, host) = {}

C13_Witness ==
  /\ lastCall.op = "clearSession"
  /\ lastCall.pre.sessionData.isAuthenticated
  /\ lastCall.pre.sessionData.userId # Undefined
  /\ getCookieString(lastCall.pre.cookieJar, BaseHost) # {}

\* C14: an entity handed to a caller out of a cache is never older than the
\* lifetime of its kind: a product no older than ProductCacheTicks, a delivery
\* area no older than AreaCacheTicks.
C14_ExpiredEntryNeverServed ==
  /\ served.kind = "product" => served.age <= ProductCacheTicks
  /\ served.kind = "area" => served.age <= AreaCacheTicks

\* C15: overlapping getProduct calls for one uncached id are not merged: every
\* caller that saw a miss made its own fetch, and when both calls have ended
\* with an entity the cache holds the entry of the id.
C15_ConcurrentMisses ==
  /\ \A p \in Callers :
       (productOp[p].pc = "done" /\ productOp[p].missed) => productOp[p].attempts = 1
  /\ (\A p \in Callers : productOp[p].pc = "done" /\ productOp[p].result = "entity")
       => productCache.present

C15_Witness ==
  /\ now = 0
  /\ \A p \in Callers :
       /\ productOp[p].pc = "done"
       /\ productOp[p].missed
       /\ productOp[p].attempts = 1
       /\ productOp[p].result = "entity"
  /\ productCache.present

\* C16: the requests the process sends in one limiter window, summed over all
\* its services, are at most RequestsPerMinute.
C16_SharedRateLimit ==
  LET SentInWindow(c) ==
        IF WindowOpen(client[c].rateLimiter, now) THEN client[c].sent ELSE 0
  IN SentInWindow("auth") + SentInWindow("cart") + SentInWindow("product")
       + SentInWindow("location") <= RequestsPerMinute

\* C17: a getProduct call whose request is rejected by the rate limiter or ends
\* in a network or HTTP error throws to its caller; only a parse failure gives
\* null.
C17_TransportFailurePropagates ==
  \A p \in Callers :
    (productOp[p].pc = "done" /\ productOp[p].failed # "none") =>
      productOp[p].result = "throw"

\* C18 as stated: needsRenewal() returns true exactly when the time left until
\* expiresAt is at most 20% of the timeout, so it is true with exactly 20% left.
C18_RenewalAtTwentyPercent ==
  lastCall.op = "needsRenewal" =>
    lastCall.result =
      (5 * lastCall.pre.sessionData.expiresAt <= lastCall.args[1] + 5 * lastCall.at)

\* C18 as amended: needsRenewal() returns true exactly when the session is
\* authenticated and the time left until expiresAt is less than 20% of the
\* timeout; with exactly 20% left, and for an unauthenticated session, it
\* returns false.
C18_RenewalBelowTwentyPercent ==
  lastCall.op = "needsRenewal" =>
    lastCall.result =
      (/\ lastCall.pre.sessionData.isAuthenticated
       /\ 5 * lastCall.pre.sessionData.expiresAt < lastCall.args[1] + 5 * lastCall.at)

C18_Witness ==
  /\ lastCall.op = "needsRenewal"
  /\ lastCall.pre.sessionData.isAuthenticated
  /\ 5 * lastCall.pre.sessionData.expiresAt = lastCall.args[1] + 5 * lastCall.at
  /\ ~lastCall.result

\* C19: setCookiesFromResponse stores every header of its list that the jar
\* accepts, whether it comes before or after a malformed one.
C19_WellFormedAlwaysStored ==
  lastCall.op = "setCookiesFromResponse" =>
    LET host == lastCall.args[1]
        cookies == lastCall.args[2]
    IN \A i \in 1..Len(cookies) :
         Accepts(cookies[i], host) =>
           [name |-> cookies[i].name, value |-> cookies[i].value,
            domain |-> IF cookies[i].domain = Undefined THEN host
                       ELSE cookies[i].domain] \in client["auth"].cookieJar

\* C20: no diagnostic entry written for a request, a response or an error
\* carries the raw value of a session cookie.
C20_NoRawCookieInDiagnostics ==
  \A i \in 1..Len(lastAttempt.logged) :
    \A n \in DOMAIN lastAttempt.logged[i] :
      AuthCookie.value \notin lastAttempt.logged[i][n]

(***************************************************************************)
(* the extraction of products                                              *)
(***************************************************************************)

\* C21: product-page extraction returns null whenever no strategy yields a
\* product name, even if a price is present: no entity with a placeholder name
\* is produced.
C21_NullWithoutName ==
  (lastCall.op = "parseProductPage" /\ extractProductName(lastCall.args[1]) = "")
    => lastCall.result = Null

\* a price text that cannot be parsed: the empty text, or a text without digits
Unparsable(text) == \A i \in 1..Len(text) : text[i] \notin Digits

\* C22: whenever a price text cannot be parsed (empty text or text without
\* digits), parsePrice gives 0, and the entity is still produced with the value
\* 0 in its price, in single-entity extraction and in list extraction alike.
C22_UnparsablePriceIsZero ==
  /\ (lastCall.op = "parsePrice" /\ Unparsable(lastCall.args[1]))
       => lastCall.result = Num(0)
  /\ (lastCall.op = "parseProductPage" /\ Unparsable(lastCall.args[1].priceText))
       => (lastCall.result # Null /\ Val(lastCall.result).price = 0)
  /\ (lastCall.op = "parseProductCard" /\ lastCall.args[1].name # ""
        /\ Unparsable(lastCall.args[1].priceText))
       => (lastCall.result # Null /\ Val(lastCall.result).price = 0)

\* a card that has its id, its name and a price
WellFormedCard(card) ==
  /\ card.id # ""
  /\ card.name # ""
  /\ \E i \in 1..Len(card.priceText) : card.priceText[i] \in Digits

\* C23: list extraction parses each matched element independently: an element
\* missing its id, name or price is skipped and does not abort the batch, and
\* the result holds exactly one entity per well-formed element, in document
\* order.
C23_ListSkipsMalformed ==
  lastCall.op = "parseProductList" =>
    LET good == SelectSeq(lastCall.args[1], WellFormedCard)
    IN /\ Len(lastCall.result) = Len(good)
       /\ \A i \in 1..Len(good) :
            /\ lastCall.result[i].id = good[i].id
            /\ lastCall.result[i].name = good[i].name

\* three well-formed cards around a malformed one give three entities
C23_Witness ==
  /\ lastCall.op = "parseProductList"
  /\ Len(lastCall.args[1]) = 4
  /\ ~WellFormedCard(lastCall.args[1][2])
  /\ \A i \in {1, 3, 4} : WellFormedCard(lastCall.args[1][i])
  /\ Len(lastCall.result) = 3

\* C24: an extracted product carries a discount only when originalPrice is
\* present and strictly greater than price, and then the discount is
\* (originalPrice - price) / originalPrice * 100 rounded to the nearest integer;
\* in every other case the discount is absent.
C24_DiscountOnlyWhenReduced ==
  lastCall.op = "parseProductPage" =>
    LET e == Val(lastCall.result)
    IN IF e.originalPrice # NoNumber /\ Val(e.originalPrice) > e.price
       THEN /\ e.discount # NoNumber
            /\ LET o == Val(e.originalPrice)
                   d == Val(e.discount)
               IN /\ 200 * (o - e.price) - o < 2 * d * o
                  /\ 2 * d * o <= 200 * (o - e.price) + o
       ELSE e.discount = NoNumber

\* C25: an extracted product has inStock = false exactly when an out-of-stock
\* marker is found in its markup, for detail-page extraction and for list-card
\* extraction alike.
C25_InStockFollowsMarker ==
  (lastCall.op \in {"parseProductPage", "parseProductCard"} /\ lastCall.result # Null)
    => (Val(lastCall.result).inStock <=> ~lastCall.args[1].marker)

(***************************************************************************)
(* the caches' entities                                                    *)
(***************************************************************************)

\* C26: once inserted, a cached entity is never modified in place: the entity
\* handed to a caller is as the caller saw it, whatever the cache operations
\* that came later.
C26_HandedEntityUnaltered ==
  orderCall.ref # 0 => orderHeap[orderCall.ref] = orderCall.seen

(***************************************************************************)
(* login and logout                                                        *)
(***************************************************************************)

\* C27: logout() always ends with the auth service unauthenticated, the session
\* unauthenticated and the session's cookie jar empty, whether the remote logout
\* request succeeds, fails at the network, or is rejected by the rate limiter.
C27_LogoutAlwaysEndsSession ==
  [][(\E resp \in Responses \cup {NoResponse} : Logout(resp))
       => /\ authStatus' = FALSE
          /\ client'["auth"].cookieJar = {}
          /\ ~client'["auth"].sessionData.isAuthenticated]_vars

\* a completed login followed by a logout whose request failed at the network
C27_Witness ==
  /\ authOp.pc = "done" /\ authOp.outcome = "authenticated"
  /\ ~authStatus
  /\ lastAttempt.by = "auth" /\ lastAttempt.result = "network_error"
  /\ client["auth"].cookieJar = {}

\* C28: a login attempt is treated as successful when the login response
\* redirects away from the login page or carries session-identifying cookies,
\* either indication sufficing on its own, and as failed when neither is present.
C28_EitherIndicationSuffices ==
  lastCall.op = "checkLoginSuccess" =>
    LET reply == lastCall.args[1].reply
        setCookie == lastCall.args[1].setCookie
    IN lastCall.result <=>
         (reply = "redirect_home"
            \/ \E i \in 1..Len(setCookie) : IsSessionCookie(setCookie[i]))

(***************************************************************************)
(* the cookie jar and the session info                                     *)
(***************************************************************************)

Contains(shown, full) ==
  \E i \in 0..(Len(shown) - Len(full)) : SubSeq(shown, i + 1, i + Len(full)) = full

\* C30: the session-info snapshot never contains the full sessionId, userId or
\* email of the session: each identifier in it is either absent or
\* redacted/masked, for every session state.
C30_SessionInfoRedacted ==
  lastCall.op = "getSessionInfo" =>
    \A f \in {"sessionId", "userId", "email"} :
      \/ lastCall.args[1][f] = <<>> /\ lastCall.result[f] = <<>>
      \/ lastCall.args[1][f] # <<>> /\ ~Contains(lastCall.result[f], lastCall.args[1][f])

\* C31: the address validation endpoint validates without setting: no step of a
\* validate call changes what getCurrentAddress() returns, and none submits an
\* address to the remote
C31_ValidateLeavesAddress ==
  [][ValidateAddress => (currentAddress' = currentAddress /\ locOp'.submits = 0)]_vars

\* C32: trackOrder always refreshes the order from the remote: every call made
\* while authenticated asks the remote for the order's page, and none returns
\* the Order the cache already held
C32_TrackOrderAlwaysFetches ==
  (orderCall.op = "trackOrder" /\ orderCall.auth) => orderCall.asked

\* C33: once an authenticated session's expiresAt has passed, no updateActivity
\* call makes it count as valid again: an isSessionValid() read at the time of an
\* updateActivity call that found the session authenticated and expired returns
\* false
C33_ExpiredStaysInvalid ==
  LET pre == lastCall.pre.sessionData
  IN (/\ lastCall.op = "updateActivity"
      /\ pre.isAuthenticated
      /\ lastCall.at >= pre.expiresAt)
       => ~isSessionValid(client["auth"].sessionData, lastCall.at)

\* C37: validateSession changes the auth status to unauthenticated only when a
\* response of the remote serves the login form; a call whose request is
\* rejected by the rate limiter or fails leaves the status as it was
C37_ResetOnlyWhenLoggedOut ==
  [][(RequireAuth /\ authStatus /\ ~authStatus')
       => (lastAttempt'.result = "ok" /\ lastCall'.args[1])]_vars

\* C38: validateCheckout returns isValid = true whenever the user is
\* authenticated, the cart getCart returned is non-empty with a total price of at
\* least 500, and a delivery address is set
C38_ValidWhenRequirementsMet ==
  (/\ lastCall.op = "validateCheckout"
   /\ lastCall.args[1] /\ lastCall.args[2]
   /\ lastCall.args[3].items > 0
   /\ lastCall.args[3].totalPrice >= MinOrderValue
   /\ lastCall.args[4])
    => lastCall.result

\* the case C35 is about does not occur: validateCheckout never being valid, no
\* checkout call reaches submitOrderToRohlik, none has an order accepted by the
\* remote and none returns success = true
CheckoutNeverSubmits ==
  /\ lastCall.op = "checkout" => (~lastCall.args[1] /\ ~lastCall.result)
  /\ lastCall.op = "validateCheckout" => ~lastCall.result

\* C34: after a successful cart mutation has completed, the cart in cartCache
\* (what getCachedCart() returns) was not fetched from the remote before that
\* mutation was applied
C34_CacheNotOlderThanMutation ==
  \A p \in Callers :
    (/\ inFlight[p].op = "mutation" /\ inFlight[p].pc = "done" /\ inFlight[p].ok
     /\ cartCache # "null")
      => cartFetchedAt >= inFlight[p].applied

\* C39: a response to a request that was in flight when the client's session
\* was cleared adds no cookie to the new jar: the step that receives it leaves
\* the jar as it was
C39_LateResponseAddsNoCookie ==
  [][\A p \in Callers :
       (/\ inFlight[p].pc = "sent" /\ inFlight[p].by = "auth" /\ inFlight[p].cleared
        /\ inFlight'[p].pc = "done")
         => client'["auth"].cookieJar = client["auth"].cookieJar]_vars

\* the first step of a call of an operation that requires authentication (a
\* getCart that ends a mutation is a call of getCart)
GuardedCallStart ==
  \/ cartOp.pc # "api" /\ CartStep
  \/ \E p \in Callers : GetCartStart(p)
  \/ ClearCartStep
  \/ locOp.pc \in {"idle", "done"} /\ AddressStep
  \/ LocationStep
  \/ OrderStep
  \/ CheckoutStep

\* C36: no operation that requires authentication issues a request to the remote
\* when the auth service is unauthenticated at the time of the call: the call
\* leaves every client, its rate limiter included, as it was
C36_NoRequestWhenUnauthenticated ==
  [][(~authStatus /\ GuardedCallStart)
       => (client' = client /\ lastAttempt' = lastAttempt)]_vars

\* a call made after a logout, by a caller whose earlier call, made while logged
\* in, asked the remote
C36_Witness ==
  /\ lastCall.op = "getPickupPoints"
  /\ ~lastCall.args[1]
  /\ ~authStatus
  /\ client["location"].sent > 0

====
